---- MODULE Spec2Model ----
(***************************************************************************)
(* Serbian transliteration (src/src/index.ts, class SerbianTransliteration) *)
(* as a state machine.  A JavaScript string is a sequence of characters;    *)
(* a character is written as a short ASCII name:                            *)
(*   ASCII characters are their own name ("a", "<", "$", "_", "0");         *)
(*   Latin letters with diacritics: "d-" (U+0111), "z^" (U+017E),           *)
(*   "c'" (U+0107), "c^" (U+010D), "s^" (U+0161), capitals "D-" "Z^" ...;   *)
(*   a Cyrillic letter is "#" followed by its Latin value in                *)
(*   cyrillic2LatinMap: "#a" (U+0430), "#nj" (U+045A), "#Dz^" (U+040F);     *)
(*   "LF" is the line feed, ZWNJ is U+200C and PUA is U+E000.               *)
(* Positions are 1-based; 0 stands for JavaScript's -1 (not found).         *)
(***************************************************************************)
EXTENDS Integers, Sequences, FiniteSets, TLC

VARIABLES
  pc,                \* position of the running call: "idle", a phase of toCyrillic, "done", "failed", "hang"
  op,                \* the public operation entered by the caller ("none" before the first call)
  text,              \* the text argument of the running call
  given,             \* FALSE when the text argument is missing (undefined)
  opts,              \* the options argument: each field of options.skip is [set, val]
  skip,              \* toCyrillic's resolved skip options (const skip)
  workingText,       \* toCyrillic's workingText
  markerReplacement, \* toCyrillic's markerReplacement side table
  skipReplacement,   \* toCyrillic's skipReplacement side table
  result,            \* toCyrillic's result / cyrillicResult
  ret,               \* the string returned by the finished call
  flag,              \* the boolean returned by isCyrillic / isLatin
  err,               \* the message of the thrown Error, "" when none
  trace,             \* the phases the running call has executed, in order
  calls,             \* the operations the caller has completed, in order
  lastIndex,         \* the largest lastIndex of the regular expressions of each table of the class
  input              \* the text the caller started from

vars == <<pc, op, text, given, opts, skip, workingText, markerReplacement,
          skipReplacement, result, ret, flag, err, trace, calls, lastIndex, input>>

----------------------------------------------------------------------------
(* Bounds of the model *)

\* the caller's text is a concatenation of at most MaxParts tokens
MaxParts == 3
\* the caller makes at most MaxCalls calls, feeding a returned string to the next
MaxCalls == 2

----------------------------------------------------------------------------
(* Characters *)

ZWNJ == "ZWNJ"
PUA == "PUA"
LF == "LF"

SKIP_PREFIX == <<PUA, "_", "_", "S", "K", "I", "P", "_", "_">>

cyrillic2LatinMap ==
  ("#a" :> <<"a">>) @@ ("#b" :> <<"b">>) @@ ("#v" :> <<"v">>) @@ ("#g" :> <<"g">>) @@
  ("#d" :> <<"d">>) @@ ("#d-" :> <<"d-">>) @@ ("#e" :> <<"e">>) @@ ("#z^" :> <<"z^">>) @@
  ("#z" :> <<"z">>) @@ ("#i" :> <<"i">>) @@ ("#j" :> <<"j">>) @@ ("#k" :> <<"k">>) @@
  ("#l" :> <<"l">>) @@ ("#lj" :> <<"l", "j">>) @@ ("#m" :> <<"m">>) @@ ("#n" :> <<"n">>) @@
  ("#nj" :> <<"n", "j">>) @@ ("#o" :> <<"o">>) @@ ("#p" :> <<"p">>) @@ ("#r" :> <<"r">>) @@
  ("#s" :> <<"s">>) @@ ("#t" :> <<"t">>) @@ ("#c'" :> <<"c'">>) @@ ("#u" :> <<"u">>) @@
  ("#f" :> <<"f">>) @@ ("#h" :> <<"h">>) @@ ("#c" :> <<"c">>) @@ ("#c^" :> <<"c^">>) @@
  ("#dz^" :> <<"d", "z^">>) @@ ("#s^" :> <<"s^">>) @@ ("#A" :> <<"A">>) @@ ("#B" :> <<"B">>) @@
  ("#V" :> <<"V">>) @@ ("#G" :> <<"G">>) @@ ("#D" :> <<"D">>) @@ ("#D-" :> <<"D-">>) @@
  ("#E" :> <<"E">>) @@ ("#Z^" :> <<"Z^">>) @@ ("#Z" :> <<"Z">>) @@ ("#I" :> <<"I">>) @@
  ("#J" :> <<"J">>) @@ ("#K" :> <<"K">>) @@ ("#L" :> <<"L">>) @@ ("#Lj" :> <<"L", "j">>) @@
  ("#M" :> <<"M">>) @@ ("#N" :> <<"N">>) @@ ("#Nj" :> <<"N", "j">>) @@ ("#O" :> <<"O">>) @@
  ("#P" :> <<"P">>) @@ ("#R" :> <<"R">>) @@ ("#S" :> <<"S">>) @@ ("#T" :> <<"T">>) @@
  ("#C'" :> <<"C'">>) @@ ("#U" :> <<"U">>) @@ ("#F" :> <<"F">>) @@ ("#H" :> <<"H">>) @@
  ("#C" :> <<"C">>) @@ ("#C^" :> <<"C^">>) @@ ("#Dz^" :> <<"D", "z^">>) @@ ("#S^" :> <<"S^">>)

latin2CyrillicMap ==
  ("a" :> "#a") @@ ("b" :> "#b") @@ ("v" :> "#v") @@ ("g" :> "#g") @@ ("d" :> "#d") @@ ("d-" :> "#d-") @@
  ("e" :> "#e") @@ ("z^" :> "#z^") @@ ("z" :> "#z") @@ ("i" :> "#i") @@ ("j" :> "#j") @@ ("k" :> "#k") @@
  ("l" :> "#l") @@ ("m" :> "#m") @@ ("n" :> "#n") @@ ("o" :> "#o") @@ ("p" :> "#p") @@ ("r" :> "#r") @@
  ("s" :> "#s") @@ ("t" :> "#t") @@ ("c'" :> "#c'") @@ ("u" :> "#u") @@ ("f" :> "#f") @@ ("h" :> "#h") @@
  ("c" :> "#c") @@ ("c^" :> "#c^") @@ ("s^" :> "#s^") @@ ("A" :> "#A") @@ ("B" :> "#B") @@ ("V" :> "#V") @@
  ("G" :> "#G") @@ ("D" :> "#D") @@ ("D-" :> "#D-") @@ ("E" :> "#E") @@ ("Z^" :> "#Z^") @@ ("Z" :> "#Z") @@
  ("I" :> "#I") @@ ("J" :> "#J") @@ ("K" :> "#K") @@ ("L" :> "#L") @@ ("M" :> "#M") @@ ("N" :> "#N") @@
  ("O" :> "#O") @@ ("P" :> "#P") @@ ("R" :> "#R") @@ ("S" :> "#S") @@ ("T" :> "#T") @@ ("C'" :> "#C'") @@
  ("U" :> "#U") @@ ("F" :> "#F") @@ ("H" :> "#H") @@ ("C" :> "#C") @@ ("C^" :> "#C^") @@ ("S^" :> "#S^")

\* JavaScript's map[char] ?? char on a Record<string, string>
Lookup(map, char) == IF char \in DOMAIN map THEN map[char] ELSE char

AsciiLower ==
  <<"a", "b", "c", "d", "e", "f", "g", "h", "i", "j", "k", "l", "m",
    "n", "o", "p", "q", "r", "s", "t", "u", "v", "w", "x", "y", "z">>
AsciiUpper ==
  <<"A", "B", "C", "D", "E", "F", "G", "H", "I", "J", "K", "L", "M",
    "N", "O", "P", "Q", "R", "S", "T", "U", "V", "W", "X", "Y", "Z">>
AsciiDigit == <<"0", "1", "2", "3", "4", "5", "6", "7", "8", "9">>
DiacriticLower == <<"d-", "z^", "c'", "c^", "s^">>
DiacriticUpper == <<"D-", "Z^", "C'", "C^", "S^">>
CyrillicLower ==
  <<"#a", "#b", "#v", "#g", "#d", "#d-", "#e", "#z^", "#z", "#i", "#j", "#k",
    "#l", "#lj", "#m", "#n", "#nj", "#o", "#p", "#r", "#s", "#t", "#c'", "#u",
    "#f", "#h", "#c", "#c^", "#dz^", "#s^">>
CyrillicUpper ==
  <<"#A", "#B", "#V", "#G", "#D", "#D-", "#E", "#Z^", "#Z", "#I", "#J", "#K",
    "#L", "#Lj", "#M", "#N", "#Nj", "#O", "#P", "#R", "#S", "#T", "#C'", "#U",
    "#F", "#H", "#C", "#C^", "#Dz^", "#S^">>

Range(f) == {f[i] : i \in DOMAIN f}

WordChars == Range(AsciiLower) \cup Range(AsciiUpper) \cup Range(AsciiDigit) \cup {"_"}
UnicodeWordChars ==
  WordChars \cup Range(DiacriticLower) \cup Range(DiacriticUpper)
            \cup Range(CyrillicLower) \cup Range(CyrillicUpper)

\* the regular expression class \w (no u flag): [A-Za-z0-9_]
IsWordChar(c) == c \in WordChars

\* the class [\p{L}\p{N}_] of the caller-word pattern (u flag)
IsUnicodeWordChar(c) == c \in UnicodeWordChars

\* what . matches in a JavaScript regular expression without the s flag
\* faulty variant of IsDot: the s flag, with which . matches a line break too
IsDotAll(c) == TRUE
IsDot(c) == c # LF

UpperLetters == AsciiUpper \o DiacriticUpper \o CyrillicUpper
LowerLetters == AsciiLower \o DiacriticLower \o CyrillicLower

FoldTable ==
  [c \in Range(UpperLetters) |->
     LowerLetters[CHOOSE i \in DOMAIN UpperLetters : UpperLetters[i] = c]]

\* case folding of the i flag: a capital letter and its small letter match
Fold(c) == IF c \in DOMAIN FoldTable THEN FoldTable[c] ELSE c

SameChar(a, b, ignoreCase) == IF ignoreCase THEN Fold(a) = Fold(b) ELSE a = b

----------------------------------------------------------------------------
(* Strings *)

Sub(s, a, b) == SubSeq(s, a, b)
From(s, a) == SubSeq(s, a, Len(s))

Min(S) == CHOOSE x \in S : \A y \in S : x <= y
Max(S) == CHOOSE x \in S : \A y \in S : x >= y

\* the least element of S, 0 (JavaScript's -1) when S is empty
First(S) == IF S = {} THEN 0 ELSE Min(S)

\* the concatenation of parts[lo], ..., parts[hi]
RECURSIVE Flatten(_, _, _)
Flatten(parts, lo, hi) ==
  IF lo > hi THEN <<>>
  ELSE IF lo = hi THEN parts[lo]
  ELSE LET mid == (lo + hi) \div 2
       IN Flatten(parts, lo, mid) \o Flatten(parts, mid + 1, hi)

\* pat occurs in s at position p
MatchAt(s, pat, p, ignoreCase) ==
  /\ p >= 1
  /\ p + Len(pat) - 1 <= Len(s)
  /\ \A k \in 1..Len(pat) : SameChar(s[p + k - 1], pat[k], ignoreCase)

\* first position >= from where pat occurs in s, 0 when there is none
Find(s, pat, from, ignoreCase) ==
  First({p \in from..(Len(s) - Len(pat) + 1) : MatchAt(s, pat, p, ignoreCase)})

\* String.prototype.indexOf(pat, from)
IndexOf(s, pat, from) == Find(s, pat, from, FALSE)

Contains(s, pat) == IndexOf(s, pat, 1) # 0

\* the decimal digits of n, as `${n}` writes them
RECURSIVE Decimal(_)
Decimal(n) ==
  IF n < 10 THEN <<AsciiDigit[n + 1]>>
  ELSE Decimal(n \div 10) \o <<AsciiDigit[(n % 10) + 1]>>

MARKER == <<"M", "A", "R", "K", "E", "R">>
WORD == <<"W", "O", "R", "D">>

\* `${SKIP_PREFIX}MARKER_${i}__` and `${SKIP_PREFIX}WORD_${i}__`
Placeholder(kind, i) == SKIP_PREFIX \o kind \o <<"_">> \o Decimal(i) \o <<"_", "_">>

\* s.replace(/pat/g, rep) for a pattern of literal characters, from position from
RECURSIVE ReplaceAllFrom(_, _, _, _)
ReplaceAllFrom(s, pat, rep, from) ==
  LET p == Find(s, pat, from, FALSE) IN
  IF p = 0 THEN From(s, from)
  ELSE Sub(s, from, p - 1) \o rep \o ReplaceAllFrom(s, pat, rep, p + Len(pat))

ReplaceAll(s, pat, rep) == ReplaceAllFrom(s, pat, rep, 1)

\* GetSubstitution of a replacement string for a string pattern (no capture
\* groups): $$ is $, $& the matched text, $` the text before the match, $' the
\* text after it; every other $ and every other character stays as written
RECURSIVE GetSubstitution(_, _, _, _, _)
GetSubstitution(rep, k, matched, before, after) ==
  LET d == First({i \in k..(Len(rep) - 1) :
                    rep[i] = "$" /\ rep[i + 1] \in {"$", "&", "`", "'"}})
  IN IF d = 0 THEN From(rep, k)
     ELSE Sub(rep, k, d - 1)
          \o (CASE rep[d + 1] = "$" -> <<"$">>
                [] rep[d + 1] = "&" -> matched
                [] rep[d + 1] = "`" -> before
                [] rep[d + 1] = "'" -> after)
          \o GetSubstitution(rep, d + 2, matched, before, after)

\* s.replace(pat, rep) with a string pattern and a string replacement: the first
\* occurrence only, the replacement expanded by GetSubstitution
StringReplace(s, pat, rep) ==
  LET p == IndexOf(s, pat, 1) IN
  IF p = 0 THEN s
  ELSE LET before == Sub(s, 1, p - 1)
           after == From(s, p + Len(pat))
       IN before \o GetSubstitution(rep, 1, pat, before, after) \o after

----------------------------------------------------------------------------
(* Tables of the class *)

\* faulty variant of digraphRegexps: /j/g in the place of /dž/g, a pattern that
\* occurs inside the occurrences of lj and nj
digraphRegexpsWithJ ==
  << <<<<"L", "j">>, "#Lj">>, <<<<"N", "j">>, "#Nj">>, <<<<"D", "z^">>, "#Dz^">>,
     <<<<"l", "j">>, "#lj">>, <<<<"n", "j">>, "#nj">>, <<<<"j">>, "#j">> >>

\* faulty variant of digraphRegexps: the digraphs in capitals among the merged
digraphRegexpsWithCapitals ==
  << <<<<"L", "J">>, "#Lj">>, <<<<"N", "J">>, "#Nj">>, <<<<"D", "Z^">>, "#Dz^">>,
     <<<<"L", "j">>, "#Lj">>, <<<<"N", "j">>, "#Nj">>, <<<<"D", "z^">>, "#Dz^">>,
     <<<<"l", "j">>, "#lj">>, <<<<"n", "j">>, "#nj">>, <<<<"d", "z^">>, "#dz^">> >>

\* faulty variant of digraphRegexps: 'dj' among the merged digraphs
digraphRegexpsWithDj ==
  << <<<<"L", "j">>, "#Lj">>, <<<<"N", "j">>, "#Nj">>, <<<<"D", "z^">>, "#Dz^">>,
     <<<<"D", "j">>, "#D-">>,
     <<<<"l", "j">>, "#lj">>, <<<<"n", "j">>, "#nj">>, <<<<"d", "z^">>, "#dz^">>,
     <<<<"d", "j">>, "#d-">> >>

\* [regexp, corresponding Cyrillic letter], in the order of the array
digraphRegexps ==
  << <<<<"L", "j">>, "#Lj">>, <<<<"N", "j">>, "#Nj">>, <<<<"D", "z^">>, "#Dz^">>,
     <<<<"l", "j">>, "#lj">>, <<<<"n", "j">>, "#nj">>, <<<<"d", "z^">>, "#dz^">> >>

\* the exception patterns (all /gi), by digraph key in the order of the object's
\* keys and, under a key, in the order of its array.  The entries kept are those
\* that match some text of the input families below (and the words of the
\* library's examples); every entry left out contains a letter sequence that no
\* text of the families contains, so it leaves all of them as they are.
digraphExceptionPatterns ==
  << [digraph |-> <<"d", "j">>,
      patterns |-> << <<"a", "d", "j", "e", "k", "t", "i", "v">>,
                      <<"b", "r", "i", "d", "j", "#e">>,
                      <<"g", "d", "j", "e">>,
                      <<"d", "j", "e", "d">>,
                      <<"d", "j", "e", "l">>,
                      <<"d", "j", "e", "t">>,
                      <<"n", "e", "d", "j", "e", "l">>,
                      <<"p", "o", "n", "e", "d", "j", "e", "l", "j">> >>],
     [digraph |-> <<"d", "z^">>,
      patterns |-> << <<"n", "a", "d", "z^", "i", "v">>,
                      <<"n", "a", "d", "z^", "n", "j">>,
                      <<"p", "o", "d", "z^", "e">>,
                      <<"p", "o", "d", "z^", "n", "j", "e">> >>],
     [digraph |-> <<"n", "j">>,
      patterns |-> << <<"a", "n", "j", "o", "n">>,
                      <<"i", "n", "j", "e", "k", "c">>,
                      <<"t", "a", "n", "j", "u", "g">> >>] >>

default2CyrillicOptions ==
  [caseSensitive |-> TRUE,
   words |-> <<>>,
   markers |-> << <<"<", "s", "k", "i", "p", ">">>, <<"<", "/", "s", "k", "i", "p", ">">> >>]

IdenticalMarkersMessage == "The opening and closing markers cannot be the same."

----------------------------------------------------------------------------
(* handleDigraphExceptions *)

\* result.replace(pattern, (match) => match.replace(new RegExp(digraph, 'g'),
\* digraph[0] + ZWNJ + digraph[1])): the pattern matches whatever the letter
\* case, the inner replacement only the digraph as the key writes it
\* a faulty guard: a word on the list has the digraph split wherever the text
\* holds it, not only inside the matched substring
GuardPatternAnywhere(s, pattern, digraph) ==
  IF Find(s, pattern, 1, TRUE) = 0 THEN s
  ELSE ReplaceAll(s, digraph, <<digraph[1], ZWNJ, digraph[2]>>)

RECURSIVE GuardPatternFrom(_, _, _, _)
GuardPatternFrom(s, pattern, digraph, from) ==
  LET p == Find(s, pattern, from, TRUE) IN
  IF p = 0 THEN From(s, from)
  ELSE LET match == Sub(s, p, p + Len(pattern) - 1)
           split == ReplaceAll(match, digraph, <<digraph[1], ZWNJ, digraph[2]>>)
       IN Sub(s, from, p - 1) \o split
          \o GuardPatternFrom(s, pattern, digraph, p + Len(pattern))

GuardPattern(s, pattern, digraph) == GuardPatternFrom(s, pattern, digraph, 1)

\* the loops over the entries and over the patterns of an entry.  A loop is
\* written with its step as a set of one element, {f(t) : t \in {step}}, which
\* has the step computed before the loop goes on.
RECURSIVE GuardPatterns(_, _, _, _)
GuardPatterns(s, patterns, digraph, k) ==
  IF k > Len(patterns) THEN s
  ELSE CHOOSE r \in {GuardPatterns(t, patterns, digraph, k + 1) :
                       t \in {GuardPattern(s, patterns[k], digraph)}} : TRUE

RECURSIVE GuardEntries(_, _, _)
GuardEntries(s, entries, k) ==
  IF k > Len(entries) THEN s
  ELSE CHOOSE r \in {GuardEntries(t, entries, k + 1) :
                       t \in {GuardPatterns(s, entries[k].patterns, entries[k].digraph, 1)}} : TRUE

handleDigraphExceptions(s) == GuardEntries(s, digraphExceptionPatterns, 1)

\* the lastIndex of a regular expression with the g flag after
\* s.replace(regexp, ...): replace starts it at 0 and searches from the end of
\* each match; the search that finds no match sets it to 0
RECURSIVE LastIndexFrom(_, _, _, _)
LastIndexFrom(s, pat, ignoreCase, from) ==
  LET p == Find(s, pat, from, ignoreCase)
  IN IF p = 0 THEN 0 ELSE LastIndexFrom(s, pat, ignoreCase, p + Len(pat))

\* faulty variant of LastIndexAfterReplace: one regexp.exec(s) in place of
\* s.replace, which leaves lastIndex at the end of the match it found
LastIndexAfterExec(s, pat, ignoreCase) ==
  LET p == Find(s, pat, 1, ignoreCase) IN IF p = 0 THEN 0 ELSE p + Len(pat) - 1

LastIndexAfterReplace(s, pat, ignoreCase) == LastIndexFrom(s, pat, ignoreCase, 1)

\* the loops of handleDigraphExceptions over s once more, for the largest
\* lastIndex the exception patterns are left with: last is the largest so far
\* (a pattern that does not occur leaves the text as it is and has lastIndex 0)
RECURSIVE GuardPatternsLastIndex(_, _, _, _, _)
GuardPatternsLastIndex(s, patterns, digraph, k, last) ==
  IF k > Len(patterns) THEN [text |-> s, lastIndex |-> last]
  ELSE CHOOSE r \in {GuardPatternsLastIndex(x.text, patterns, digraph, k + 1, x.lastIndex) :
                       x \in {IF Find(s, patterns[k], 1, TRUE) = 0
                               THEN [text |-> s, lastIndex |-> last]
                               ELSE [text |-> GuardPattern(s, patterns[k], digraph),
                                     lastIndex |-> Max({last, LastIndexAfterReplace(s, patterns[k], TRUE)})]}} : TRUE

RECURSIVE GuardEntriesLastIndex(_, _, _, _)
GuardEntriesLastIndex(s, entries, k, last) ==
  IF k > Len(entries) THEN last
  ELSE CHOOSE r \in {GuardEntriesLastIndex(x.text, entries, k + 1, x.lastIndex) :
                       x \in {GuardPatternsLastIndex(s, entries[k].patterns, entries[k].digraph, 1, last)}} : TRUE

GuardLastIndex(s) == GuardEntriesLastIndex(s, digraphExceptionPatterns, 1, 0)

----------------------------------------------------------------------------
(* The phases of toCyrillic *)

Coalesce(field, default) == IF field.set THEN field.val ELSE default

\* a faulty resolution: the defaults stand in for a missing options argument
\* only, a field missing from given options stays undefined (no flag, no
\* words, no markers)
ResolveSkipWhole(o) ==
  IF ~o.caseSensitive.set /\ ~o.words.set /\ ~o.markers.set
  THEN default2CyrillicOptions
  ELSE [caseSensitive |-> Coalesce(o.caseSensitive, FALSE),
        words |-> Coalesce(o.words, <<>>),
        markers |-> Coalesce(o.markers, <<>>)]

\* const skip = { caseSensitive: options?.skip?.caseSensitive ?? default, ... }
ResolveSkip(o) ==
  [caseSensitive |-> Coalesce(o.caseSensitive, default2CyrillicOptions.caseSensitive),
   words |-> Coalesce(o.words, default2CyrillicOptions.words),
   markers |-> Coalesce(o.markers, default2CyrillicOptions.markers)]

handleSkipMarkers(sk) == Len(sk.markers) = 2
handleSkipWords(sk) == Len(sk.words) > 0
\* faulty variant of IgnoreCase: the flags are 'g' whatever skip.caseSensitive is
AlwaysCaseSensitive(sk) == FALSE
\* regexFlags is 'gi' iff ignoreCase
IgnoreCase(sk) == ~sk.caseSensitive
\* faulty variant of IdenticalMarkers: the two markers are never compared
MarkersNotCompared(sk) == FALSE
IdenticalMarkers(sk) == handleSkipMarkers(sk) /\ sk.markers[1] = sk.markers[2]

\* faulty variant of CloseFrom: the greedy (.*) in place of the lazy (.*?), which
\* runs to the last close marker of the line
CloseFromGreedy(s, q, close, ignoreCase) ==
  LET E == {e \in q..(Len(s) - Len(close) + 1) :
              /\ MatchAt(s, close, e, ignoreCase)
              /\ \A k \in q..(e - 1) : IsDot(s[k])}
  IN IF E = {} THEN 0 ELSE Max(E)

\* the end of the lazy (.*?) started at q: the first position >= q where close
\* occurs with only non-line-break characters before it, 0 when there is none
CloseFrom(s, q, close, ignoreCase) ==
  LET e == Find(s, close, q, ignoreCase) IN
  IF e # 0 /\ \A k \in q..(e - 1) : IsDot(s[k]) THEN e ELSE 0

\* the first position >= from where open(.*?)close matches, 0 when there is none
MarkerStart(s, from, open, close, ignoreCase) ==
  First({p \in from..(Len(s) - Len(open) + 1) :
           /\ MatchAt(s, open, p, ignoreCase)
           /\ CloseFrom(s, p + Len(open), close, ignoreCase) # 0})

\* workingText.replace(regex, (_, content) => { markerReplacement.push(content);
\* return `${SKIP_PREFIX}MARKER_${i++}__` })
RECURSIVE MarkerPass(_, _, _, _, _, _, _)
MarkerPass(s, from, open, close, ignoreCase, out, table) ==
  LET p == MarkerStart(s, from, open, close, ignoreCase) IN
  IF p = 0 THEN [text |-> out \o From(s, from), table |-> table]
  ELSE LET q == CloseFrom(s, p + Len(open), close, ignoreCase)
           content == Sub(s, p + Len(open), q - 1)
       IN MarkerPass(s, q + Len(close), open, close, ignoreCase,
                     out \o Sub(s, from, p - 1) \o Placeholder(MARKER, Len(table)),
                     Append(table, content))

ExtractMarkers(s, sk) ==
  IF handleSkipMarkers(sk)
  THEN MarkerPass(s, 1, sk.markers[1], sk.markers[2], IgnoreCase(sk), <<>>, <<>>)
  ELSE [text |-> s, table |-> <<>>]

\* faulty variant of containsEnglishLetter: w and W are missing from the class
containsEnglishLetterButW(word) ==
  \E k \in 1..Len(word) : word[k] \in {"q", "y", "x", "Q", "Y", "X"}

\* /[qwyxQWYX]/.test(word)
containsEnglishLetter(word) ==
  \E k \in 1..Len(word) : word[k] \in {"q", "w", "y", "x", "Q", "W", "Y", "X"}

\* the last position of the run of \w characters that starts at from
RunEnd(s, from) ==
  Min({e \in from..Len(s) : e = Len(s) \/ ~IsWordChar(s[e + 1])})

\* workingText.replace(/\b\w+\b/g, (word) => ...): every maximal run of \w
\* characters; a run with q, w, y or x is pushed and replaced by its placeholder
RECURSIVE ForcedPass(_, _, _, _)
ForcedPass(s, from, out, table) ==
  LET b == First({p \in from..Len(s) : IsWordChar(s[p])}) IN
  IF b = 0 THEN [text |-> out \o From(s, from), table |-> table]
  ELSE LET e == RunEnd(s, b)
           word == Sub(s, b, e)
       IN IF containsEnglishLetter(word)
          THEN ForcedPass(s, e + 1,
                          out \o Sub(s, from, b - 1) \o Placeholder(WORD, Len(table)),
                          Append(table, word))
          ELSE ForcedPass(s, e + 1, out \o Sub(s, from, e), table)

ExtractForced(s) == ForcedPass(s, 1, <<>>, <<>>)

\* (?=[^\p{L}\p{N}_]|$) at position q
Ahead(s, q) == q > Len(s) \/ ~IsUnicodeWordChar(s[q])

\* the length of the match of (^|[^\p{L}\p{N}_])(word)(?=[^\p{L}\p{N}_]|$) that
\* starts at p, -1 when there is none: the alternative ^ is tried first
WordMatchLen(s, p, word, ignoreCase) ==
  IF p = 1 /\ MatchAt(s, word, p, ignoreCase) /\ Ahead(s, p + Len(word))
  THEN Len(word)
  ELSE IF /\ p <= Len(s)
          /\ ~IsUnicodeWordChar(s[p])
          /\ MatchAt(s, word, p + 1, ignoreCase)
          /\ Ahead(s, p + 1 + Len(word))
  THEN 1 + Len(word)
  ELSE -1

\* the first position >= from where the pattern matches, 0 when there is none
WordStart(s, from, word, ignoreCase) ==
  First({p \in from..(Len(s) + 1) : WordMatchLen(s, p, word, ignoreCase) >= 0})

\* workingText.replace(regex, (matched) => { skipReplacement.push(matched);
\* return `${SKIP_PREFIX}WORD_${skipReplacement.length - 1}__` }) for one word;
\* last is the first character not yet copied, from where the search resumes
RECURSIVE WordPass(_, _, _, _, _, _, _)
WordPass(s, from, last, word, ignoreCase, out, table) ==
  LET p == WordStart(s, from, word, ignoreCase) IN
  IF p = 0 THEN [text |-> out \o From(s, last), table |-> table]
  ELSE LET n == WordMatchLen(s, p, word, ignoreCase)
           matched == Sub(s, p, p + n - 1)
       IN WordPass(s, IF n = 0 THEN p + 1 ELSE p + n, p + n, word, ignoreCase,
                   out \o Sub(s, last, p - 1) \o Placeholder(WORD, Len(table)),
                   Append(table, matched))

\* skip.words.forEach(...)
RECURSIVE WordsPass(_, _, _, _, _)
WordsPass(s, words, k, ignoreCase, table) ==
  IF k > Len(words) THEN [text |-> s, table |-> table]
  ELSE CHOOSE w \in {WordsPass(r.text, words, k + 1, ignoreCase, r.table) :
                       r \in {WordPass(s, 1, 1, words[k], ignoreCase, <<>>, table)}} : TRUE

\* faulty variant of ExtractWords: the caller's words are taken last to first
ExtractWordsBackwards(s, sk, table) ==
  IF handleSkipWords(sk)
  THEN WordsPass(s, [k \in 1..Len(sk.words) |-> sk.words[Len(sk.words) + 1 - k]], 1,
                 IgnoreCase(sk), table)
  ELSE [text |-> s, table |-> table]

ExtractWords(s, sk, table) ==
  IF handleSkipWords(sk)
  THEN WordsPass(s, sk.words, 1, IgnoreCase(sk), table)
  ELSE [text |-> s, table |-> table]

\* for (const [regexps, cyrillic] of digraphRegexps) result = result.replace(...)
RECURSIVE MergeFrom(_, _)
MergeFrom(s, k) ==
  IF k > Len(digraphRegexps) THEN s
  ELSE CHOOSE r \in {MergeFrom(t, k + 1) :
                       t \in {ReplaceAll(s, digraphRegexps[k][1],
                                          <<digraphRegexps[k][2]>>)}} : TRUE

\* faulty variant of MergeDigraphs: replace without the g flag, so that only the
\* first occurrence of each digraph is merged
RECURSIVE MergeOnceFrom(_, _)
MergeOnceFrom(s, k) ==
  IF k > Len(digraphRegexps) THEN s
  ELSE CHOOSE r \in {MergeOnceFrom(t, k + 1) :
                       t \in {StringReplace(s, digraphRegexps[k][1],
                                            <<digraphRegexps[k][2]>>)}} : TRUE

MergeOnce(s) == MergeOnceFrom(s, 1)

\* faulty variant of MergeDigraphs: the patterns with the flags 'gi', so that a
\* digraph is merged in every letter case
RECURSIVE ReplaceAnyCaseFrom(_, _, _, _)
ReplaceAnyCaseFrom(s, pat, rep, from) ==
  LET p == Find(s, pat, from, TRUE) IN
  IF p = 0 THEN From(s, from)
  ELSE Sub(s, from, p - 1) \o rep \o ReplaceAnyCaseFrom(s, pat, rep, p + Len(pat))

RECURSIVE MergeAnyCaseFrom(_, _)
MergeAnyCaseFrom(s, k) ==
  IF k > Len(digraphRegexps) THEN s
  ELSE CHOOSE r \in {MergeAnyCaseFrom(t, k + 1) :
                       t \in {ReplaceAnyCaseFrom(s, digraphRegexps[k][1],
                                                 <<digraphRegexps[k][2]>>, 1)}} : TRUE

MergeAnyCase(s) == MergeAnyCaseFrom(s, 1)

MergeDigraphs(s) == MergeFrom(s, 1)

\* the merge loop over s once more, for the largest lastIndex the digraph
\* patterns are left with: last is the largest so far
RECURSIVE MergeLastIndexFrom(_, _, _)
MergeLastIndexFrom(s, k, last) ==
  IF k > Len(digraphRegexps) THEN last
  ELSE CHOOSE r \in {MergeLastIndexFrom(x.text, k + 1, x.lastIndex) :
                       x \in {IF Find(s, digraphRegexps[k][1], 1, FALSE) = 0
                               THEN [text |-> s, lastIndex |-> last]
                               ELSE [text |-> ReplaceAll(s, digraphRegexps[k][1],
                                                         <<digraphRegexps[k][2]>>),
                                     lastIndex |-> Max({last, LastIndexAfterReplace(s, digraphRegexps[k][1], FALSE)})]}} : TRUE

MergeLastIndex(s) == MergeLastIndexFrom(s, 1, 0)

\* the while loop over result: a placeholder is copied as it is, ZWNJ is
\* dropped, every other character is mapped.  When a placeholder prefix has no
\* closing "__" neither i nor cyrillicResult changes and the loop never ends.
\* the else branch of the loop over a stretch with no placeholder prefix:
\* ZWNJ is dropped, every other character is mapped
MapStretch(t) ==
  LET kept == SelectSeq(t, LAMBDA c : c # ZWNJ)
  IN [k \in 1..Len(kept) |-> Lookup(latin2CyrillicMap, kept[k])]

\* nextMarker = result.indexOf(SKIP_PREFIX, i): the characters before
\* nextMarker take the else branch one by one; at nextMarker the placeholder is
\* copied up to and with its closing "__"
RECURSIVE ScanLoop(_, _, _)
ScanLoop(s, i, out) ==
  LET nextMarker == IndexOf(s, SKIP_PREFIX, i) IN
  IF nextMarker = 0 THEN [hang |-> FALSE, text |-> out \o MapStretch(From(s, i))]
  ELSE LET end == IndexOf(s, <<"_", "_">>, nextMarker + Len(SKIP_PREFIX)) IN
       IF end # 0
       THEN ScanLoop(s, end + 2,
                     out \o MapStretch(Sub(s, i, nextMarker - 1))
                         \o Sub(s, nextMarker, end + 1))
       ELSE [hang |-> TRUE, text |-> out \o MapStretch(Sub(s, i, nextMarker - 1))]

\* a faulty scan: every character takes the else branch, those of a
\* placeholder included
ScanMappingAll(s) == [hang |-> FALSE, text |-> MapStretch(s)]

Scan(s) == ScanLoop(s, 1, <<>>)

\* for (i = 0; i < table.length; i++) result = result.replace(placeholder, table[i])
RECURSIVE RestoreFrom(_, _, _, _)
RestoreFrom(s, kind, table, k) ==
  IF k > Len(table) THEN s
  ELSE CHOOSE r \in {RestoreFrom(t, kind, table, k + 1) :
                       t \in {StringReplace(s, Placeholder(kind, k - 1), table[k])}} : TRUE

\* a faulty restoration: the loop over the side table is left out
RestoreNone(s, kind, table) == s

Restore(s, kind, table) == RestoreFrom(s, kind, table, 1)

\* faulty variant of StripZWNJ: replace without the g flag, first ZWNJ only
StripFirstZWNJ(s) == StringReplace(s, <<ZWNJ>>, <<>>)
\* result.replace(new RegExp(ZWNJ, 'g'), '')
StripZWNJ(s) == ReplaceAll(s, <<ZWNJ>>, <<>>)

\* toCyrillic on a non-empty text whose markers are not identical, as one
\* function: the phases below in their order (the scan is assumed to end).
\* Each phase is written as a set of one element, so that it is computed
\* before the phase that reads it.
ToCyrillicOf(s, o) ==
  LET sk == ResolveSkip(o)
      Marked == {ExtractMarkers(s, sk)}
      Forced == {[m |-> m.table, f |-> ExtractForced(m.text)] : m \in Marked}
      Worded == {[m |-> x.m, w |-> ExtractWords(x.f.text, sk, x.f.table)] : x \in Forced}
      Guarded == {[x EXCEPT !.w.text = handleDigraphExceptions(@)] : x \in Worded}
      Merged == {[x EXCEPT !.w.text = MergeDigraphs(@)] : x \in Guarded}
      Scanned == {[x EXCEPT !.w.text = Scan(@).text] : x \in Merged}
      Markers == {[x EXCEPT !.w.text = Restore(@, MARKER, x.m)] : x \in Scanned}
      Words == {Restore(x.w.text, WORD, x.w.table) : x \in Markers}
  IN CHOOSE out \in {StripZWNJ(r) : r \in Words} : TRUE

----------------------------------------------------------------------------
(* toLatin and the script detection *)

\* faulty variant of ToLatinOf: without "?? char", a character that is no key
\* of the map is dropped
ToLatinMappedOnly(s) ==
  Flatten([k \in 1..Len(s) |->
             IF s[k] \in DOMAIN cyrillic2LatinMap THEN cyrillic2LatinMap[s[k]]
             ELSE <<>>],
          1, Len(s))

\* faulty variant of ToLatinOf: the loop ends after the first character it has
\* found in the map, the rest of the text is copied
ToLatinFirstKey(s) ==
  LET first == First({k \in 1..Len(s) : s[k] \in DOMAIN cyrillic2LatinMap}) IN
  IF first = 0 THEN s
  ELSE Sub(s, 1, first - 1) \o cyrillic2LatinMap[s[first]] \o From(s, first + 1)

\* result += cyrillic2LatinMap[char] ?? char, for every char of text
ToLatinOf(s) ==
  Flatten([k \in 1..Len(s) |->
             IF s[k] \in DOMAIN cyrillic2LatinMap THEN cyrillic2LatinMap[s[k]]
             ELSE <<s[k]>>],
          1, Len(s))

\* a character counts as Cyrillic if it is a key of cyrillic2LatinMap, else as
\* Latin if it is a key of latin2CyrillicMap
countCyrillicAndLatinLetters(s) ==
  [cyrillic |-> Cardinality({k \in 1..Len(s) : s[k] \in DOMAIN cyrillic2LatinMap}),
   latin |-> Cardinality({k \in 1..Len(s) :
                            /\ s[k] \notin DOMAIN cyrillic2LatinMap
                            /\ s[k] \in DOMAIN latin2CyrillicMap})]

\* faulty variant of IsCyrillicOf: >= for >, a tie counts as Cyrillic
IsCyrillicOrTie(s) ==
  LET letters == countCyrillicAndLatinLetters(s) IN letters.cyrillic >= letters.latin

IsCyrillicOf(s) ==
  LET letters == countCyrillicAndLatinLetters(s) IN letters.cyrillic > letters.latin

\* faulty variant of IsLatinOf: >= for >, a tie counts as Latin
IsLatinOrTie(s) ==
  LET letters == countCyrillicAndLatinLetters(s) IN letters.latin >= letters.cyrillic

IsLatinOf(s) ==
  LET letters == countCyrillicAndLatinLetters(s) IN letters.latin > letters.cyrillic

----------------------------------------------------------------------------
(* The state machine: one caller, one call at a time *)

\* faulty variant of Falsy: only a missing argument counts, '' does not
MissingOnly == ~given
\* if (!text): the argument is missing or the empty string
Falsy == ~given \/ text = <<>>

NoSkip == [caseSensitive |-> TRUE, words |-> <<>>, markers |-> <<>>]
Unset(v) == [set |-> FALSE, val |-> v]
Set(v) == [set |-> TRUE, val |-> v]
NoOptions == [caseSensitive |-> Unset(TRUE), words |-> Unset(<<>>), markers |-> Unset(<<>>)]

Locals == <<skip, workingText, markerReplacement, skipReplacement, result>>
Args == <<text, given, opts, input>>

Enter(name) ==
  /\ pc = "idle"
  /\ op' = name
  /\ calls' = Append(calls, name)

Return(value, steps) ==
  /\ pc' = "done"
  /\ ret' = value
  /\ trace' = steps
  /\ UNCHANGED <<flag, err, lastIndex, Locals, Args>>

ToLatin ==
  /\ Enter("toLatin")
  /\ IF Falsy THEN Return(<<>>, <<>>) ELSE Return(ToLatinOf(text), <<"toLatin">>)

IsCyrillic ==
  /\ Enter("isCyrillic")
  /\ pc' = "done"
  /\ flag' = IF Falsy THEN FALSE ELSE IsCyrillicOf(text)
  /\ trace' = IF Falsy THEN <<>> ELSE <<"count">>
  /\ UNCHANGED <<ret, err, lastIndex, Locals, Args>>

IsLatin ==
  /\ Enter("isLatin")
  /\ pc' = "done"
  /\ flag' = IF Falsy THEN FALSE ELSE IsLatinOf(text)
  /\ trace' = IF Falsy THEN <<>> ELSE <<"count">>
  /\ UNCHANGED <<ret, err, lastIndex, Locals, Args>>

\* toCyrillic up to its first statement: the empty-text return
ToCyrillic ==
  /\ Enter("toCyrillic")
  /\ IF Falsy THEN Return(<<>>, <<>>)
     ELSE /\ pc' = "options"
          /\ trace' = <<>>
          /\ UNCHANGED <<ret, flag, err, lastIndex, Locals, Args>>

\* autoTransliterate: toLatin for Cyrillic text, toCyrillic(text, options) for
\* Latin text (the text is not empty there, so toCyrillic goes on to its
\* options), the text itself otherwise
AutoTransliterate ==
  /\ Enter("autoTransliterate")
  /\ IF Falsy THEN Return(<<>>, <<>>)
     ELSE IF IsCyrillicOf(text) THEN Return(ToLatinOf(text), <<"count", "toLatin">>)
     ELSE IF IsLatinOf(text)
     THEN /\ pc' = "options"
          /\ trace' = <<"count", "count">>
          /\ UNCHANGED <<ret, flag, err, lastIndex, Locals, Args>>
     ELSE Return(text, <<"count", "count">>)

\* autoTransliterate(text) of the shipped build, dist/index.js: it has no
\* options parameter and calls this.toCyrillic(text)
DistAutoTransliterate ==
  /\ Enter("dist.autoTransliterate")
  /\ IF Falsy THEN Return(<<>>, <<>>)
     ELSE IF IsCyrillicOf(text) THEN Return(ToLatinOf(text), <<"count", "toLatin">>)
     ELSE IF IsLatinOf(text)
     THEN /\ pc' = "options"
          /\ trace' = <<"count", "count">>
          /\ UNCHANGED <<ret, flag, err, lastIndex, Locals, Args>>
     ELSE Return(text, <<"count", "count">>)

\* the options toCyrillic is called with: those of the caller, none when the
\* call is the one autoTransliterate of the shipped build makes
optionsPassed == IF op = "dist.autoTransliterate" THEN NoOptions ELSE opts

Step(from, to, name) ==
  /\ pc = from
  /\ pc' = to
  /\ trace' = Append(trace, name)
  /\ UNCHANGED <<op, calls, ret, flag, Args>>

\* the skip options are resolved against the defaults and identical markers throw
ResolveOptions ==
  LET sk == ResolveSkip(optionsPassed) IN
  /\ Step("options", IF IdenticalMarkers(sk) THEN "failed" ELSE "markers", "options")
  /\ skip' = sk
  /\ workingText' = text
  /\ err' = IF IdenticalMarkers(sk) THEN IdenticalMarkersMessage ELSE err
  /\ UNCHANGED <<markerReplacement, skipReplacement, result, lastIndex>>

ExtractSkipMarkers ==
  LET r == ExtractMarkers(workingText, skip) IN
  /\ Step("markers", "forced", "markers")
  /\ workingText' = r.text
  /\ markerReplacement' = r.table
  /\ UNCHANGED <<skip, skipReplacement, result, err, lastIndex>>

ExtractForcedSkip ==
  LET r == ExtractForced(workingText) IN
  /\ Step("forced", "words", "forced")
  /\ workingText' = r.text
  /\ skipReplacement' = r.table
  /\ UNCHANGED <<skip, markerReplacement, result, err, lastIndex>>

ExtractSkipWords ==
  LET r == ExtractWords(workingText, skip, skipReplacement) IN
  /\ Step("words", "guard", "words")
  /\ workingText' = r.text
  /\ skipReplacement' = r.table
  /\ UNCHANGED <<skip, markerReplacement, result, err, lastIndex>>

ExceptionGuard ==
  /\ Step("guard", "merge", "guard")
  /\ result' = handleDigraphExceptions(workingText)
  /\ lastIndex' = [lastIndex EXCEPT !.digraphExceptionPatterns = GuardLastIndex(workingText)]
  /\ UNCHANGED <<skip, workingText, markerReplacement, skipReplacement, err>>

DigraphMerge ==
  /\ Step("merge", "scan", "merge")
  /\ result' = MergeDigraphs(result)
  /\ lastIndex' = [lastIndex EXCEPT !.digraphRegexps = MergeLastIndex(result)]
  /\ UNCHANGED <<skip, workingText, markerReplacement, skipReplacement, err>>

\* the while loop over result.  At "hang" the loop repeats one iteration that
\* changes neither i nor cyrillicResult: the call takes no further step and
\* never returns
PlaceholderScan ==
  LET r == Scan(result) IN
  /\ Step("scan", IF r.hang THEN "hang" ELSE "restoreMarkers", "scan")
  /\ result' = r.text
  /\ UNCHANGED <<skip, workingText, markerReplacement, skipReplacement, err, lastIndex>>

RestoreMarkers ==
  /\ Step("restoreMarkers", "restoreWords", "restoreMarkers")
  /\ result' = Restore(result, MARKER, markerReplacement)
  /\ UNCHANGED <<skip, workingText, markerReplacement, skipReplacement, err, lastIndex>>

RestoreWords ==
  /\ Step("restoreWords", "strip", "restoreWords")
  /\ result' = Restore(result, WORD, skipReplacement)
  /\ UNCHANGED <<skip, workingText, markerReplacement, skipReplacement, err, lastIndex>>

StripAndReturn ==
  /\ pc = "strip"
  /\ pc' = "done"
  /\ ret' = StripZWNJ(result)
  /\ trace' = Append(trace, "strip")
  /\ UNCHANGED <<op, calls, flag, err, lastIndex, Locals, Args>>

\* the caller passes the string a call returned to its next call
Feed ==
  /\ pc = "done"
  /\ op \in {"toLatin", "toCyrillic"}
  /\ Len(calls) < MaxCalls
  /\ pc' = "idle"
  /\ text' = ret
  /\ given' = TRUE
  /\ skip' = NoSkip
  /\ workingText' = <<>>
  /\ markerReplacement' = <<>>
  /\ skipReplacement' = <<>>
  /\ result' = <<>>
  /\ trace' = <<>>
  /\ UNCHANGED <<op, opts, ret, flag, err, calls, lastIndex, input>>

\* the caller makes its next call with the arguments of the call before,
\* whether that call returned or failed
CallAgain ==
  /\ pc \in {"done", "failed"}
  /\ Len(calls) < MaxCalls
  /\ pc' = "idle"
  /\ skip' = NoSkip
  /\ workingText' = <<>>
  /\ markerReplacement' = <<>>
  /\ skipReplacement' = <<>>
  /\ result' = <<>>
  /\ err' = ""
  /\ trace' = <<>>
  /\ UNCHANGED <<op, ret, flag, calls, lastIndex, Args>>

Pipeline ==
  \/ ResolveOptions \/ ExtractSkipMarkers \/ ExtractForcedSkip \/ ExtractSkipWords
  \/ ExceptionGuard \/ DigraphMerge \/ PlaceholderScan
  \/ RestoreMarkers \/ RestoreWords \/ StripAndReturn

Next == ToLatin \/ IsCyrillic \/ IsLatin \/ ToCyrillic \/ AutoTransliterate \/ Pipeline

NextChain == Next \/ Feed

NextCalls == Next \/ Feed \/ CallAgain

\* the calls of the library and the call of autoTransliterate of the build
NextDist == Next \/ DistAutoTransliterate

----------------------------------------------------------------------------
(* The caller's inputs *)

\* the concatenations of at most n tokens of T
RECURSIVE Concats(_, _)
Concats(T, n) ==
  IF n = 0 THEN {<<>>}
  ELSE LET shorter == Concats(T, n - 1) IN shorter \cup {t \o s : t \in T, s \in shorter}

OPEN == default2CyrillicOptions.markers[1]
CLOSE == default2CyrillicOptions.markers[2]
Region(content) == OPEN \o content \o CLOSE
TAG == <<"<", "t", "a", "g", ">">>
Test == <<"t", "e", "s", "t">>
TestTitle == <<"T", "e", "s", "t">>
TestUpper == <<"T", "E", "S", "T">>
UpperRegion(content) ==
  <<"<", "S", "K", "I", "P", ">">> \o content \o <<"<", "/", "S", "K", "I", "P", ">">>

\* Cyrillic letters: po, dz^, e spell a word of the dz^ exception list (podz^e);
\* n j and d z^ are the letter pairs that toLatin writes like nj and dz^
CyrillicTokens ==
  {<<"#p", "#o">>, <<"#dz^">>, <<"#e">>, <<"#d">>, <<"#z^">>, <<"#n">>, <<"#j">>, <<"#nj">>,
   <<"#N">>}

\* Latin words in several letter cases: a nj on and po dz^ e spell words of the
\* nj and dz^ exception lists
ExceptionTokens ==
  {<<"a">>, <<"o", "n">>, <<"n", "j">>, <<"N", "j">>, <<"N", "J">>,
   <<"p", "o">>, <<"d", "z^">>, <<"D", "z^">>, <<"e">>}

\* a caller skip word and a skip region, each in several letter cases
CaseTokens ==
  {Test, TestTitle, TestUpper, <<" ">>, Region(<<"n", "a">>), UpperRegion(<<"n", "a">>)}

\* Latin text: a word with w, a caller skip word, a word of the dj exception
\* list, and skip regions, of which one holds a $ sequence and one U+200C
SkipTokens ==
  {<<"w", "a">>, <<" ">>, Test, <<"g", "d", "j", "e">>,
   Region(<<"a">>), Region(<<"$", "&">>), Region(<<ZWNJ>>)}

\* text of both scripts: Cyrillic letters, Latin letters, a character of neither
\* script, a caller skip word and a word with w between two such characters
MixedTokens ==
  {<<"#nj">>, <<"#d">>, <<"d">>, <<"n", "j">>, <<"!">>, Test, <<"!", "w", "!">>}

\* text that holds the reserved placeholder prefix: the prefix, a letter, the
\* "__" that closes a placeholder, a space and a word with w
ReservedTokens ==
  {SKIP_PREFIX, <<"a">>, <<"_", "_">>, <<" ">>, <<"w", "a">>}

\* text for a sequence of calls: a word of the nj exception list, the digraph
\* nj on its own and the Cyrillic letter it merges to
CallsTokens ==
  {<<"a", "n", "j", "o", "n">>, <<"n", "j">>, <<"#nj">>}

\* markers on their own, a letter, a letter before a line feed and a whole region
SpanTokens ==
  {OPEN, CLOSE, <<"a">>, <<"a", LF>>, Region(<<"a">>)}

\* the six digraphs that the merge step rewrites
MergeTokens ==
  {<<"L", "j">>, <<"l", "j">>, <<"N", "j">>, <<"n", "j">>, <<"D", "z^">>, <<"d", "z^">>}

\* words of the exception list that hold a second digraph, the digraphs on
\* their own and the letter cases of 'dj'
GuardTokens ==
  {<<"p", "o", "n", "e", "d", "j", "e", "l", "j">>,
   <<"n", "a", "d", "z^", "n", "j">>, <<"a", "n", "j", "o", "n">>,
   <<"d", "z^">>, <<"n", "j">>, <<"D", "j">>, <<"D", "J">>}

\* Latin text: a q/w/x/y word with a diacritic letter, digraphs in capitals and
\* in mixed case, a merged digraph and a word of the exception list
LatinTokens ==
  {<<"w", "z^">>, <<"N", "J">>, <<"L", "J">>, <<"D", "Z^">>, <<"n", "J">>,
   <<"n", "j">>, <<"a", "n", "j", "o", "n">>}

WithMarkers(o, open, close) == [o EXCEPT !.markers = Set(<<open, close>>)]
WithWords(o, words) == [o EXCEPT !.words = Set(words)]
WithCase(o, b) == [o EXCEPT !.caseSensitive = Set(b)]

IdenticalOptions == WithMarkers(NoOptions, TAG, TAG)

RoundTripOptions == {NoOptions, IdenticalOptions}

\* the default markers, and the same two strings with their roles exchanged
SpanOptions ==
  {NoOptions, WithMarkers(NoOptions, CLOSE, OPEN), WithWords(NoOptions, <<<<"A">>>>)}

MixedOptions == {NoOptions, IdenticalOptions, WithWords(NoOptions, <<Test, <<"d">>>>)}

CaseOptions ==
  {IdenticalOptions} \cup
  {[NoOptions EXCEPT !.words = Set(<<w>>), !.caseSensitive = c] :
     w \in {Test, TestUpper}, c \in {Unset(TRUE), Set(TRUE), Set(FALSE)}}

SkipOptions ==
  {NoOptions, IdenticalOptions, WithWords(NoOptions, <<Test>>),
   WithCase(WithWords(NoOptions, <<Test>>), FALSE)}

InitWith(texts, options) ==
  /\ pc = "idle"
  /\ op = "none"
  /\ \/ given = TRUE /\ text \in texts
     \/ given = FALSE /\ text = <<>>
  /\ input = text
  /\ opts \in options
  /\ skip = NoSkip
  /\ workingText = <<>>
  /\ markerReplacement = <<>>
  /\ skipReplacement = <<>>
  /\ result = <<>>
  /\ ret = <<>>
  /\ flag = FALSE
  /\ err = ""
  /\ trace = <<>>
  /\ calls = <<>>
  /\ lastIndex = [digraphExceptionPatterns |-> 0, digraphRegexps |-> 0]

Init == InitWith(Concats(SkipTokens, MaxParts), SkipOptions)
InitRoundTrip == InitWith(Concats(CyrillicTokens, MaxParts), RoundTripOptions)
InitException == InitWith(Concats(ExceptionTokens, MaxParts), RoundTripOptions)
InitCase == InitWith(Concats(CaseTokens, MaxParts), CaseOptions)
InitReserved == InitWith(Concats(ReservedTokens, MaxParts), {NoOptions, IdenticalOptions})
InitCalls == InitWith(Concats(CallsTokens, MaxParts), {NoOptions, IdenticalOptions})
InitSpans == InitWith(Concats(SpanTokens, MaxParts), SpanOptions)
InitMerge == InitWith(Concats(MergeTokens, MaxParts), RoundTripOptions)
InitGuard == InitWith(Concats(GuardTokens, MaxParts), {NoOptions})
InitLatin == InitWith(Concats(LatinTokens, MaxParts), {NoOptions})
InitMixed == InitWith(Concats(MixedTokens, MaxParts), MixedOptions)

Spec == Init /\ [][Next]_vars
SpecRoundTrip == InitRoundTrip /\ [][NextChain]_vars
SpecException == InitException /\ [][Next]_vars
SpecCase == InitCase /\ [][Next]_vars
SpecMixed == InitMixed /\ [][Next]_vars
SpecMerge == InitMerge /\ [][Next]_vars
SpecSpans == InitSpans /\ [][Next]_vars
SpecGuard == InitGuard /\ [][Next]_vars
SpecLatin == InitLatin /\ [][NextChain]_vars
SpecDist == InitMixed /\ [][NextDist]_vars
SpecCalls == InitCalls /\ [][NextCalls]_vars

\* a call that has started runs its next statement: the phases of toCyrillic
\* follow one another in one synchronous function body
SpecReserved == InitReserved /\ [][Next]_vars /\ WF_vars(Pipeline)

----------------------------------------------------------------------------
(* Properties *)

\* a call of toCyrillic has returned: directly, or as the call autoTransliterate
\* makes for Latin text (its last step is the strip)
CyrillicReturned ==
  /\ pc = "done"
  /\ \/ op = "toCyrillic"
     \/ op = "autoTransliterate" /\ trace # <<>> /\ trace[Len(trace)] = "strip"

\* skip.markers is given as a pair of equal elements
EqualPair(o) ==
  o.markers.set /\ Len(o.markers.val) = 2 /\ o.markers.val[1] = o.markers.val[2]

\* C10: for an empty or missing text every entry point returns '' or false,
\* whatever the options: no pipeline step runs and no error is raised
C10_EmptyInput ==
  text = <<>> =>
    /\ pc \in {"idle", "done"}
    /\ ret = <<>>
    /\ flag = FALSE
    /\ err = ""
    /\ trace = <<>>

\* toCyrillic has returned for an empty text though the markers are identical
C10_Witness ==
  /\ pc = "done"
  /\ op = "toCyrillic"
  /\ given
  /\ text = <<>>
  /\ EqualPair(opts)

\* C9, as stated: for every text, toCyrillic with a pair of equal markers fails
\* with the identical-markers message and returns no text
C9_EveryText ==
  (op = "toCyrillic" /\ EqualPair(opts) /\ pc \notin {"idle", "options"}) =>
    /\ pc = "failed"
    /\ err = IdenticalMarkersMessage
    /\ ret = <<>>

\* C9, amended: for every non-empty text, toCyrillic with a pair of equal
\* markers fails with the identical-markers message before any phase touches
\* the text, and returns nothing
C9_NonEmptyText ==
  (op = "toCyrillic" /\ EqualPair(opts) /\ text # <<>> /\ pc # "idle") =>
    /\ pc \in {"options", "failed"}
    /\ pc = "failed" => /\ err = IdenticalMarkersMessage
                        /\ trace = <<"options">>
                        /\ workingText = text
    /\ ret = <<>>
    /\ markerReplacement = <<>> /\ skipReplacement = <<>> /\ result = <<>>

\* toCyrillic has failed on a non-empty text with equal markers
C9_Witness ==
  /\ pc = "failed"
  /\ op = "toCyrillic"
  /\ text # <<>>
  /\ EqualPair(opts)
  /\ err = IdenticalMarkersMessage

\* C5: the string toCyrillic returns never contains U+200C, whatever the input
\* and the options, on every path that returns
C5_NoSeparator ==
  CyrillicReturned => ZWNJ \notin Range(ret)

\* toCyrillic has returned a text whose restored skip regions held U+200C up to
\* the final strip, for an input in which an exception pattern matched as well
C5_Witness ==
  /\ pc = "done"
  /\ op = "toCyrillic"
  /\ ret # <<>>
  /\ ZWNJ \in Range(result)
  /\ ZWNJ \in Range(handleDigraphExceptions(workingText))

\* toCyrillic has returned for a non-empty text and valid options
ValidReturn == pc = "done" /\ op = "toCyrillic" /\ text # <<>> /\ ~EqualPair(opts)

EndsWith(s, t) == Len(t) <= Len(s) /\ Sub(s, Len(s) - Len(t) + 1, Len(s)) = t

\* C3: every open...close span of the input appears in the output as exactly
\* its inner content, whatever the content, with both markers removed and the
\* text outside converted.  Stated for the first span of an input that holds
\* neither U+E000 nor U+200C, where the text after the span does not start with
\* a letter, a digit or "_": the output is the conversion of the text before,
\* the content, the conversion of the rest.
C3_SpanVerbatim ==
  LET sk == ResolveSkip(opts)
      open == sk.markers[1]
      close == sk.markers[2]
      p == MarkerStart(input, 1, open, close, IgnoreCase(sk))
      q == CloseFrom(input, p + Len(open), close, IgnoreCase(sk))
      before == Sub(input, 1, p - 1)
      content == Sub(input, p + Len(open), q - 1)
      after == From(input, q + Len(close))
  IN (/\ ValidReturn
      /\ Range(input) \cap {PUA, ZWNJ} = {}
      /\ handleSkipMarkers(sk)
      /\ p # 0
      /\ after = <<>> \/ ~IsUnicodeWordChar(after[1]))
     => ret = ToCyrillicOf(before, opts) \o content \o ToCyrillicOf(after, opts)

HasPlaceholder(s) ==
  \/ Contains(s, SKIP_PREFIX \o MARKER \o <<"_">>)
  \/ Contains(s, SKIP_PREFIX \o WORD \o <<"_">>)

\* C4: for an input with neither U+E000 nor U+200C (and, here, no "$") and valid
\* options, the returned string holds no placeholder token and every extracted
\* region is present as its original text, also where a skip region meets a
\* word with q/w/x/y or a caller skip word
C4_NoPlaceholderLeft ==
  (/\ ValidReturn
   /\ Range(input) \cap {PUA, ZWNJ, "$"} = {})
  => /\ ~HasPlaceholder(ret)
     /\ \A k \in 1..Len(markerReplacement) : Contains(ret, markerReplacement[k])

\* C7: an occurrence of a word of skip.words that stands alone (start of text or
\* a character that is no letter, digit or "_" before it, such a character or
\* the end of text after it) is left unconverted.  Stated for an occurrence
\* that ends a text with neither U+E000 nor U+200C: the output ends with it as
\* the input spells it.
C7_StandAloneKept ==
  LET sk == ResolveSkip(opts) IN
  \A k \in 1..Len(sk.words) :
    LET word == sk.words[k]
        p == Len(input) - Len(word) + 1
    IN (/\ ValidReturn
        /\ Range(input) \cap {PUA, ZWNJ} = {}
        /\ p >= 1
        /\ MatchAt(input, word, p, IgnoreCase(sk))
        /\ p = 1 \/ ~IsUnicodeWordChar(input[p - 1]))
       => EndsWith(ret, From(input, p))

\* toLatin and then toCyrillic with no options have returned, for an input made
\* of keys of cyrillic2LatinMap only
RoundTripReturned ==
  /\ pc = "done"
  /\ calls = <<"toLatin", "toCyrillic">>
  /\ opts = NoOptions
  /\ \A k \in 1..Len(input) : input[k] \in DOMAIN cyrillic2LatinMap

\* C1, as stated: toCyrillic(toLatin(text)) with no options equals text for
\* every text made of keys of the Cyrillic-to-Latin map
C1_RoundTrip ==
  RoundTripReturned => ret = input

\* two Cyrillic letters that toLatin writes like the one letter lj, nj or dz^
AmbiguousPairs ==
  {<<"#l", "#j">>, <<"#L", "#j">>, <<"#n", "#j">>, <<"#N", "#j">>,
   <<"#d", "#z^">>, <<"#D", "#z^">>}

HasAmbiguousPair(s) ==
  \E k \in 1..(Len(s) - 1) : <<s[k], s[k + 1]>> \in AmbiguousPairs

\* the digraphs the merge step knows, and the exception entries filed under them
MergedDigraphs == {digraphRegexps[k][1] : k \in 1..Len(digraphRegexps)}

ExceptionHit(s) ==
  \E e \in 1..Len(digraphExceptionPatterns) :
    /\ digraphExceptionPatterns[e].digraph \in MergedDigraphs
    /\ \E j \in 1..Len(digraphExceptionPatterns[e].patterns) :
         Find(s, digraphExceptionPatterns[e].patterns[j], 1, TRUE) # 0

\* C1, amended: the round trip gives the text back when the text has none of
\* the letter pairs that toLatin writes like lj, nj or dz^ and its Latin form
\* matches no exception pattern of a merged digraph
C1_RoundTripUnambiguous ==
  (RoundTripReturned /\ ~HasAmbiguousPair(input) /\ ~ExceptionHit(text))
    => ret = input

\* a round trip has returned for a text with the letters nj and dz^ in it
C1_Witness ==
  /\ RoundTripReturned
  /\ ~HasAmbiguousPair(input)
  /\ ~ExceptionHit(text)
  /\ {"#nj", "#dz^"} \subseteq Range(input)
  /\ Len(input) >= 3
  /\ ret = input

\* the Cyrillic letters the merge step writes for a digraph, in any letter case
MergedLetters(digraph) ==
  {digraphRegexps[k][2] :
     k \in {i \in 1..Len(digraphRegexps) :
              /\ Len(digraphRegexps[i][1]) = Len(digraph)
              /\ MatchAt(digraphRegexps[i][1], digraph, 1, TRUE)}}

Occurrences(s, pat, ignoreCase) ==
  {p \in 1..Len(s) : MatchAt(s, pat, p, ignoreCase)}

\* C2: in a word an exception pattern matches, in whatever letter case, the
\* digraph the pattern is filed under is not merged: the output has none of the
\* single Cyrillic letters of that digraph.  Stated for texts in which the
\* digraph occurs once, so that its occurrence is the one the pattern covers.
C2_ExceptionNeverMerged ==
  \A e \in 1..Len(digraphExceptionPatterns) :
    \A j \in 1..Len(digraphExceptionPatterns[e].patterns) :
      LET digraph == digraphExceptionPatterns[e].digraph
          pattern == digraphExceptionPatterns[e].patterns[j]
      IN (/\ ValidReturn
          /\ opts = NoOptions
          /\ Occurrences(input, pattern, TRUE) # {}
          /\ Cardinality(Occurrences(input, digraph, TRUE)) = 1)
         => MergedLetters(digraph) \cap Range(ret) = {}

\* the spans open...close of s as the marker pass finds them, as <<first, last>>
RECURSIVE SpansFrom(_, _, _, _, _)
SpansFrom(s, from, open, close, ignoreCase) ==
  LET p == MarkerStart(s, from, open, close, ignoreCase) IN
  IF p = 0 THEN {}
  ELSE LET q == CloseFrom(s, p + Len(open), close, ignoreCase)
       IN {<<p, q + Len(close) - 1>>}
            \cup SpansFrom(s, q + Len(close), open, close, ignoreCase)

Spans(s, sk) ==
  IF handleSkipMarkers(sk)
  THEN SpansFrom(s, 1, sk.markers[1], sk.markers[2], ~sk.caseSensitive)
  ELSE {}

\* the maximal runs of ASCII letters, digits and "_" of s, as <<first, last>>
Runs(s) ==
  {<<b, Min({e \in b..Len(s) : e = Len(s) \/ s[e + 1] \notin WordChars})>> :
     b \in {p \in 1..Len(s) : s[p] \in WordChars /\ (p = 1 \/ s[p - 1] \notin WordChars)}}

\* the runs of the input that lie outside every skip region
RunsOutside(s, sk) ==
  {r \in Runs(s) : \A span \in Spans(s, sk) : r[2] < span[1] \/ r[1] > span[2]}

HasEnglishLetter(word) == Range(word) \cap {"q", "w", "x", "y", "Q", "W", "X", "Y"} # {}

\* some word of skip.words occurs in the run, in whatever letter case
HoldsSkipWord(run, sk) ==
  \E k \in 1..Len(sk.words) : Occurrences(run, sk.words[k], TRUE) # {}

\* the conversion of a text in which nothing is skipped
Converted(s) ==
  CHOOSE r \in {Scan(m).text : m \in {MergeDigraphs(g) : g \in {handleDigraphExceptions(s)}}} : TRUE

Spaces(s) == {p \in 1..Len(s) : s[p] = " "}
SpaceAt(s, i) ==
  IF i = 0 THEN 0
  ELSE IF i > Cardinality(Spaces(s)) THEN Len(s) + 1
  ELSE CHOOSE p \in Spaces(s) : Cardinality({q \in Spaces(s) : q <= p}) = i
Fields(s) ==
  [i \in 1..(Cardinality(Spaces(s)) + 1) |-> Sub(s, SpaceAt(s, i - 1) + 1, SpaceAt(s, i) - 1)]

\* f spells t, letter case apart
Spells(f, t) == Len(f) = Len(t) /\ MatchAt(f, t, 1, TRUE)

\* f spells open, a content without markers, spaces or "$", and close
SpellsRegion(f, open, close) ==
  /\ Len(f) >= Len(open) + Len(close)
  /\ MatchAt(f, open, 1, TRUE)
  /\ MatchAt(f, close, Len(f) - Len(close) + 1, TRUE)
  /\ LET content == Sub(f, Len(open) + 1, Len(f) - Len(close))
     IN /\ Occurrences(content, open, TRUE) = {}
        /\ Occurrences(content, close, TRUE) = {}
        /\ Range(content) \cap {" ", "$", LF, ZWNJ, PUA} = {}

\* C8: skip.caseSensitive governs skip.words and skip.markers alike.  In a text
\* whose skip regions hold no space, a field that spells a skip word is kept
\* when caseSensitive is false or the field has the caller's letter case, and is
\* converted otherwise; a field that spells a skip region is replaced by its
\* content under the same condition on its markers, and is converted with its
\* markers otherwise; what is kept has the letter case of the input.
C8_CaseSensitivity ==
  LET sk == ResolveSkip(opts)
      open == sk.markers[1]
      close == sk.markers[2]
      in == Fields(input)
      out == Fields(ret)
  IN (/\ ValidReturn
      /\ handleSkipMarkers(sk)
      /\ \A k \in 1..Len(markerReplacement) : " " \notin Range(markerReplacement[k]))
     => /\ Len(out) = Len(in)
        /\ \A i \in 1..Len(in) :
             /\ \A k \in 1..Len(sk.words) :
                  Spells(in[i], sk.words[k]) =>
                    out[i] = IF ~sk.caseSensitive \/ in[i] = sk.words[k]
                             THEN in[i] ELSE Converted(in[i])
             /\ SpellsRegion(in[i], open, close) =>
                  out[i] = IF \/ ~sk.caseSensitive
                              \/ /\ MatchAt(in[i], open, 1, FALSE)
                                 /\ MatchAt(in[i], close, Len(in[i]) - Len(close) + 1, FALSE)
                           THEN Sub(in[i], Len(open) + 1, Len(in[i]) - Len(close))
                           ELSE Converted(in[i])

\* toCyrillic has returned, with caseSensitive false and the skip word test, the
\* text "Test <SKIP>na</SKIP>" as "Test na"
C8_Witness ==
  /\ ValidReturn
  /\ opts.caseSensitive = Set(FALSE)
  /\ opts.words = Set(<<Test>>)
  /\ input = TestTitle \o <<" ">> \o UpperRegion(<<"n", "a">>)
  /\ ret = TestTitle \o <<" ", "n", "a">>

----------------------------------------------------------------------------
(* Properties of toLatin, the script detection and autoTransliterate *)

\* what toLatin writes for one character
LatinValue(c) == IF c \in DOMAIN cyrillic2LatinMap THEN cyrillic2LatinMap[c] ELSE <<c>>

\* the number of characters toLatin has written before it reads s[k]: one for
\* each character before k, and one more for each that is written as two
LatinOffset(s, k) ==
  (k - 1) + Cardinality({i \in 1..(k - 1) : Len(LatinValue(s[i])) = 2})

\* C11: toLatin returns for every text, and what it returns is, in order, the
\* map value (one or two Latin characters) of each character that is a key of
\* cyrillic2LatinMap and the character itself otherwise; a text with no key of
\* the map is returned unchanged
C11_ToLatinCharacterWise ==
  op = "toLatin" =>
    /\ pc = "done" /\ err = ""
    /\ \A c \in Range(text) : Len(LatinValue(c)) \in {1, 2}
    /\ Len(ret) = LatinOffset(text, Len(text) + 1)
    /\ \A k \in 1..Len(text) :
         Sub(ret, LatinOffset(text, k) + 1, LatinOffset(text, k + 1)) = LatinValue(text[k])
    /\ Range(text) \cap DOMAIN cyrillic2LatinMap = {} => ret = text

\* toLatin has returned for a text with a letter written as two, a letter
\* written as one and a character that is no key of the map
C11_Witness ==
  /\ pc = "done"
  /\ op = "toLatin"
  /\ {"#nj", "#d", "!"} \subseteq Range(text)
  /\ Len(ret) = Len(text) + 1

\* the number of characters of s that are keys of a map
KeysIn(s, map) == Cardinality({k \in 1..Len(s) : s[k] \in DOMAIN map})

\* C12: isCyrillic(text) is true exactly when more characters of the text are
\* keys of cyrillic2LatinMap than are keys of latin2CyrillicMap, isLatin(text)
\* exactly in the mirror case; so they are never both true, and both are false
\* exactly when the two counts are equal
C12_ScriptDetection ==
  LET cyrillic == KeysIn(text, cyrillic2LatinMap)
      latin == KeysIn(text, latin2CyrillicMap)
      isCyrillic == text # <<>> /\ IsCyrillicOf(text)
      isLatin == text # <<>> /\ IsLatinOf(text)
  IN /\ (pc = "done" /\ op = "isCyrillic") => flag = (cyrillic > latin)
     /\ (pc = "done" /\ op = "isLatin") => flag = (latin > cyrillic)
     /\ (pc = "done" /\ op = "isCyrillic") => flag = isCyrillic
     /\ (pc = "done" /\ op = "isLatin") => flag = isLatin
     /\ ~(isCyrillic /\ isLatin)
     /\ (~isCyrillic /\ ~isLatin) <=> (cyrillic = latin)

\* isLatin has returned false for a text with as many Cyrillic as Latin letters
C12_Witness ==
  /\ pc = "done"
  /\ op = "isLatin"
  /\ flag = FALSE
  /\ KeysIn(text, cyrillic2LatinMap) = KeysIn(text, latin2CyrillicMap)
  /\ KeysIn(text, latin2CyrillicMap) > 0

\* the positions of the Cyrillic letters of s, in increasing order
CyrillicPositions(s) ==
  LET P == {k \in 1..Len(s) : s[k] \in DOMAIN cyrillic2LatinMap}
  IN [i \in 1..Cardinality(P) |-> CHOOSE k \in P : Cardinality({j \in P : j < k}) = i - 1]

\* s with its Cyrillic letters left in place and every stretch between them
\* converted by toCyrillic
StretchesConverted(s, o) ==
  LET at == CyrillicPositions(s)
      n == Len(at)
      start(i) == IF i = 0 THEN 1 ELSE at[i] + 1
      end(i) == IF i = n THEN Len(s) ELSE at[i + 1] - 1
      stretch == [i \in 0..n |-> Sub(s, start(i), end(i))]
      converted == [i \in 0..n |-> IF stretch[i] = <<>> THEN <<>> ELSE ToCyrillicOf(stretch[i], o)]
  IN Flatten([j \in 1..(2 * n + 1) |->
                IF j % 2 = 1 THEN converted[(j - 1) \div 2] ELSE <<s[at[j \div 2]]>>],
             1, 2 * n + 1)

AutoReturned == op = "autoTransliterate" /\ pc \in {"done", "failed"} /\ text # <<>>

\* C13: for a non-empty text, autoTransliterate returns toLatin(text) when the
\* text has more Cyrillic than Latin letters, toCyrillic(text, options) when it
\* has more Latin than Cyrillic letters, and the text itself on a tie; the
\* letters of the minority script keep their place unchanged: the Latin
\* letters in the toLatin result, and the Cyrillic letters in the toCyrillic
\* result, where the stretches between them are converted on their own when
\* no skip words are given
C13_Dispatch ==
  LET cyrillic == KeysIn(text, cyrillic2LatinMap)
      latin == KeysIn(text, latin2CyrillicMap)
  IN AutoReturned =>
       /\ cyrillic > latin =>
             /\ pc = "done"
             /\ ret = ToLatinOf(text)
             /\ \A k \in 1..Len(text) :
                  text[k] \notin DOMAIN cyrillic2LatinMap =>
                    Sub(ret, LatinOffset(text, k) + 1, LatinOffset(text, k + 1)) = <<text[k]>>
       /\ (latin > cyrillic /\ ~EqualPair(opts)) =>
             /\ pc = "done"
             /\ ret = ToCyrillicOf(text, opts)
             /\ ~opts.words.set => ret = StretchesConverted(text, opts)
             /\ \A c \in DOMAIN cyrillic2LatinMap : Cardinality({k \in 1..Len(ret) : ret[k] = c}) >= Cardinality({k \in 1..Len(text) : text[k] = c})
       /\ cyrillic = latin => pc = "done" /\ ret = text

\* autoTransliterate has converted a Latin-majority text that holds a Cyrillic
\* letter, and has kept the caller's skip word
C13_Witness ==
  /\ AutoReturned
  /\ pc = "done"
  /\ KeysIn(text, latin2CyrillicMap) > KeysIn(text, cyrillic2LatinMap)
  /\ KeysIn(text, cyrillic2LatinMap) > 0
  /\ opts.words.set
  /\ Contains(text, Test)
  /\ Contains(ret, Test)

\* C14: called with a pair of identical markers, autoTransliterate raises the
\* identical-markers error exactly when the text has more Latin than Cyrillic
\* letters, and returns normally otherwise: the toLatin result for a
\* Cyrillic-majority text, the text itself on a tie, '' for an empty text;
\* autoTransliterate fails in no other way
C14_FailsOnlyThroughToCyrillic ==
  LET cyrillic == KeysIn(text, cyrillic2LatinMap)
      latin == KeysIn(text, latin2CyrillicMap)
  IN (op = "autoTransliterate" /\ pc \in {"done", "failed"}) =>
       /\ pc = "failed" =>
             /\ EqualPair(opts)
             /\ latin > cyrillic
             /\ err = IdenticalMarkersMessage
             /\ ret = <<>>
             /\ trace = <<"count", "count", "options">>
             /\ workingText = text
             /\ markerReplacement = <<>> /\ skipReplacement = <<>> /\ result = <<>>
       /\ EqualPair(opts) =>
             /\ latin > cyrillic => pc = "failed"
             /\ cyrillic > latin => pc = "done" /\ err = "" /\ ret = ToLatinOf(text)
             /\ cyrillic = latin => pc = "done" /\ err = "" /\ ret = text

\* autoTransliterate has returned the toLatin result of a Cyrillic-majority
\* text that holds a Latin letter, though the markers were identical
C14_Witness ==
  /\ op = "autoTransliterate"
  /\ pc = "done"
  /\ EqualPair(opts)
  /\ KeysIn(text, cyrillic2LatinMap) > KeysIn(text, latin2CyrillicMap)
  /\ KeysIn(text, latin2CyrillicMap) > 0
  /\ ret # text

\* C15: every call of toCyrillic that has started comes to its end, by a
\* return or by the identical-markers error, whatever the text (the reserved
\* placeholder prefix included) and the options
C15_Terminates ==
  (op = "toCyrillic" /\ pc # "idle") ~> (pc \in {"done", "failed"})

\* what a call returns as a function of its arguments alone
ReturnOf(name, s, o) ==
  IF s = <<>> THEN <<>>
  ELSE IF name = "toLatin" THEN ToLatinOf(s)
  ELSE IF name = "toCyrillic" THEN ToCyrillicOf(s, o)
  ELSE IF IsCyrillicOf(s) THEN ToLatinOf(s)
  ELSE IF IsLatinOf(s) THEN ToCyrillicOf(s, o)
  ELSE s

FlagOf(name, s) ==
  /\ s # <<>>
  /\ IF name = "isCyrillic" THEN IsCyrillicOf(s) ELSE IsLatinOf(s)

\* a call of toCyrillic, made or passed on by autoTransliterate, that throws
Throws(name, s, o) ==
  /\ s # <<>>
  /\ EqualPair(o)
  /\ name = "toCyrillic" \/ (name = "autoTransliterate" /\ ~IsCyrillicOf(s) /\ IsLatinOf(s))

\* what the call that has just finished was to do, given its arguments alone
FinishedAsFirstCall ==
  /\ pc = "failed" => Throws(op, text, opts) /\ err = IdenticalMarkersMessage
  /\ pc = "done" =>
        /\ err = ""
        /\ ~Throws(op, text, opts)
        /\ op \in {"toLatin", "toCyrillic", "autoTransliterate"} => ret = ReturnOf(op, text, opts)
        /\ op \in {"isCyrillic", "isLatin"} => flag = FlagOf(op, text)

\* C16: in every sequence of calls, each call returns (or throws) what its
\* arguments alone determine, whatever calls were made before it; the
\* regular expressions of the exception patterns and of the digraph patterns
\* have lastIndex 0 in every state, so also after a call that failed; and no
\* step of a call changes the caller's options
C16_NoStateCarried ==
  /\ [](FinishedAsFirstCall
        /\ lastIndex = [digraphExceptionPatterns |-> 0, digraphRegexps |-> 0])
  /\ [][opts' = opts]_vars

\* a second call of toCyrillic with the arguments of the first has returned;
\* the text matches an exception pattern and holds a digraph that is merged
C16_Witness ==
  /\ pc = "done"
  /\ calls = <<"toCyrillic", "toCyrillic">>
  /\ text = input
  /\ Contains(text, <<"a", "n", "j", "o", "n">>)
  /\ Range(text) \cap DOMAIN cyrillic2LatinMap = {}
  /\ Contains(ret, <<"#nj">>)
  /\ Contains(ret, <<"#n", "#j">>)

\* the phases of toCyrillic in the order of the specification
Phases ==
  <<"options", "markers", "forced", "words", "guard", "merge", "scan",
    "restoreMarkers", "restoreWords", "strip">>

\* the number of phases a call at position p has behind it
PhasesBefore(p) ==
  IF p = "done" THEN Len(Phases)
  ELSE IF p = "failed" THEN 1
  ELSE (CHOOSE i \in 1..Len(Phases) : Phases[i] = p) - 1

\* the index of the caller's skip word that a side-table entry ends with, 0
\* when it ends with none
SkipWordOf(entry, words) ==
  First({k \in 1..Len(words) : EndsWith(entry, words[k])})

\* C17: a call of toCyrillic on a non-empty text has, at every position, run
\* exactly the phases before that position, once each and in the order validate
\* options, extract regions, forced skip, caller skip words, exception guard,
\* digraph merge, scan, restore regions, restore words, strip; in the side
\* table the forced entries come before the entries of the caller's words, and
\* these in the order the words were supplied; the call fails in the
\* validation only, with the working text untouched and no side-table entry
C17_PipelineOrder ==
  (op = "toCyrillic" /\ text # <<>> /\ pc # "idle") =>
    /\ pc \in Range(Phases) \cup {"done", "failed"}
    /\ trace = Sub(Phases, 1, PhasesBefore(pc))
    /\ pc = "failed" =>
          /\ workingText = text
          /\ markerReplacement = <<>> /\ skipReplacement = <<>>
          /\ result = <<>> /\ ret = <<>>
    /\ PhasesBefore(pc) < 3 => skipReplacement = <<>>
    /\ PhasesBefore(pc) = 3 => \A k \in 1..Len(skipReplacement) : HasEnglishLetter(skipReplacement[k])
    /\ PhasesBefore(pc) > 3 =>
          \E n \in 0..Len(skipReplacement) :
            /\ \A k \in 1..n : HasEnglishLetter(skipReplacement[k])
            /\ \A k \in (n + 1)..Len(skipReplacement) :
                 /\ ~HasEnglishLetter(skipReplacement[k])
                 /\ SkipWordOf(skipReplacement[k], skip.words) # 0
            /\ \A j, k \in (n + 1)..Len(skipReplacement) :
                 j < k => SkipWordOf(skipReplacement[j], skip.words)
                            <= SkipWordOf(skipReplacement[k], skip.words)

\* a call has returned whose side table holds a forced entry, then an entry of
\* the first caller word, then one of the second, the second word standing
\* before the first in the text
C17_Witness ==
  /\ op = "toCyrillic" /\ pc = "done"
  /\ trace = Phases
  /\ Len(skipReplacement) = 3
  /\ HasEnglishLetter(skipReplacement[1])
  /\ SkipWordOf(skipReplacement[2], skip.words) = 1
  /\ SkipWordOf(skipReplacement[3], skip.words) = 2
  /\ text[1] = "d"

\* the position in the working text of the placeholder of side-table entry k
PlaceholderAt(k) == IndexOf(workingText, Placeholder(MARKER, k - 1), 1)

\* the length of the span of entry k in the text, markers included
SpanLen(k) == Len(skip.markers[1]) + Len(markerReplacement[k]) + Len(skip.markers[2])

\* the position in the text where the span of side-table entry k starts
RECURSIVE SpanStart(_)
SpanStart(k) ==
  IF k = 1 THEN PlaceholderAt(1)
  ELSE SpanStart(k - 1) + SpanLen(k - 1)
       + (PlaceholderAt(k) - PlaceholderAt(k - 1) - Len(Placeholder(MARKER, k - 2)))

\* open at p, the nearest close after it at q, and no line break between them
CanSpan(s, p, q, open, close) ==
  /\ MatchAt(s, open, p, FALSE)
  /\ q >= p + Len(open)
  /\ MatchAt(s, close, q, FALSE)
  /\ \A e \in (p + Len(open))..(q - 1) : s[e] # LF /\ ~MatchAt(s, close, e, FALSE)

\* the state right after the extraction of the skip regions of a text without
\* the reserved characters, under case-sensitive options
RegionsExtracted ==
  /\ pc = "forced"
  /\ skip.caseSensitive
  /\ PUA \notin Range(text)

\* C18 without its clause on the open marker: entry k of the side table is the
\* content of the k-th span from the left, whose place the placeholder with
\* index k takes; a span runs from an open marker to the nearest close marker
\* after it with no line break between; spans do not overlap, the text outside
\* them is left as it is, and an open marker that could start a span but starts
\* none lies inside a span found before it
SpansAsFound ==
  LET n == Len(markerReplacement)
      open == skip.markers[1]
      close == skip.markers[2]
      gapStart(k) == IF k = 0 THEN 1 ELSE SpanStart(k) + SpanLen(k)
      gapEnd(k) == IF k = n THEN Len(text) ELSE SpanStart(k + 1) - 1
      workStart(k) == IF k = 0 THEN 1 ELSE PlaceholderAt(k) + Len(Placeholder(MARKER, k - 1))
      workEnd(k) == IF k = n THEN Len(workingText) ELSE PlaceholderAt(k + 1) - 1
  IN /\ \A k \in 1..n :
          /\ PlaceholderAt(k) # 0
          /\ k > 1 => PlaceholderAt(k) >= PlaceholderAt(k - 1) + Len(Placeholder(MARKER, k - 2))
          /\ CanSpan(text, SpanStart(k), SpanStart(k) + SpanLen(k) - Len(close), open, close)
          /\ Sub(text, SpanStart(k) + Len(open), SpanStart(k) + SpanLen(k) - Len(close) - 1)
               = markerReplacement[k]
          /\ ~Contains(markerReplacement[k], close)
     /\ \A k \in 0..n : Sub(workingText, workStart(k), workEnd(k)) = Sub(text, gapStart(k), gapEnd(k))
     /\ \A p, q \in 1..Len(text) :
          CanSpan(text, p, q, open, close) =>
            \E k \in 1..n : SpanStart(k) <= p /\ p < SpanStart(k) + SpanLen(k)

\* C18, as stated: moreover the content of a span holds no further occurrence
\* of the open marker
C18_SpanStructure ==
  RegionsExtracted =>
    /\ SpansAsFound
    /\ \A k \in 1..Len(markerReplacement) : ~Contains(markerReplacement[k], skip.markers[1])

\* C18, amended: the spans are as above, and the content of a span, which is
\* all the text between its two markers, holds no occurrence of the close
\* marker and no line break (an open marker standing there is part of it)
C18_SpansLazy ==
  RegionsExtracted =>
    /\ SpansAsFound
    /\ \A k \in 1..Len(markerReplacement) : LF \notin Range(markerReplacement[k])

\* two spans have been extracted, and the content of the first holds an open marker
C18_Witness ==
  /\ RegionsExtracted
  /\ Len(markerReplacement) = 2
  /\ Contains(markerReplacement[1], skip.markers[1])

\* an open marker at p and the next close marker after it, at q, with a line
\* break between them
BrokenPair(s, p, q, open, close) ==
  /\ MatchAt(s, open, p, FALSE)
  /\ q = IndexOf(s, close, p + Len(open))
  /\ q # 0
  /\ \E e \in (p + Len(open))..(q - 1) : s[e] = LF

\* no skip region has been extracted for an open marker that a line break
\* parts from the next close marker
NoRegionForBrokenPair ==
  RegionsExtracted =>
    \A p, q \in 1..Len(text) :
      BrokenPair(text, p, q, skip.markers[1], skip.markers[2]) =>
        \A k \in 1..Len(markerReplacement) : SpanStart(k) # p

\* toCyrillic has returned the conversion of a text without the reserved
\* characters, under case-sensitive options and with no skip words
PlainReturn ==
  /\ ValidReturn
  /\ skip.caseSensitive
  /\ skip.words = <<>>
  /\ Range(text) \cap {PUA, ZWNJ} = {}

\* C19, as stated: for every open marker parted by a line break from the next
\* close marker no region is extracted, and the output holds the stretch from
\* the open marker to the close marker, both included, converted like
\* ordinary text
C19_MultiLine ==
  /\ NoRegionForBrokenPair
  /\ PlainReturn =>
        \A p, q \in 1..Len(text) :
          BrokenPair(text, p, q, skip.markers[1], skip.markers[2]) =>
            Contains(ret, Converted(Sub(text, p, q + Len(skip.markers[2]) - 1)))

\* C19, amended: the same for the pairs with no further open marker between
\* the two markers; where one stands after the line break, it starts a region
\* that ends at the close marker
C19_MultiLineNoOpenBetween ==
  /\ NoRegionForBrokenPair
  /\ PlainReturn =>
        \A p, q \in 1..Len(text) :
          (/\ BrokenPair(text, p, q, skip.markers[1], skip.markers[2])
           /\ \A e \in (p + 1)..(q - 1) : ~MatchAt(text, skip.markers[1], e, FALSE))
            => Contains(ret, Converted(Sub(text, p, q + Len(skip.markers[2]) - 1)))

\* toCyrillic has returned for a text in which a letter and a line break part
\* an open marker from the close marker; no region was extracted and the
\* letter is converted
C19_Witness ==
  /\ PlainReturn
  /\ markerReplacement = <<>>
  /\ Contains(ret, <<"#a", LF>>)
  /\ \E p, q \in 1..Len(text) :
       /\ BrokenPair(text, p, q, skip.markers[1], skip.markers[2])
       /\ \A e \in (p + 1)..(q - 1) : ~MatchAt(text, skip.markers[1], e, FALSE)
       /\ Contains(ret, Converted(Sub(text, p, q + Len(skip.markers[2]) - 1)))

\* the strings that the substitutions of digraphRegexps give from s when each
\* is applied once, in every order; of[S] holds those for the substitutions
\* with an index in S
InAnyOrder(s) ==
  LET of[S \in SUBSET (1..Len(digraphRegexps))] ==
        IF S = {} THEN {s}
        ELSE UNION {{ReplaceAll(t, digraphRegexps[k][1], <<digraphRegexps[k][2]>>) :
                       t \in of[S \ {k}]} : k \in S}
  IN of[1..Len(digraphRegexps)]

\* the positions where some pattern of digraphRegexps occurs in s
DigraphsAt(s, k) == {p \in 1..Len(s) : MatchAt(s, digraphRegexps[k][1], p, FALSE)}

\* C20: the merge step leaves the string that the six substitutions give in
\* every one of their orders: in the text it works on no occurrence of one
\* pattern overlaps an occurrence of another, and after it no pattern occurs
C20_MergeOrderIndependent ==
  (pc = "scan" /\ op = "toCyrillic") =>
    LET guarded == handleDigraphExceptions(workingText)
    IN /\ InAnyOrder(guarded) = {result}
       /\ \A j, k \in 1..Len(digraphRegexps) :
            j # k => \A p \in DigraphsAt(guarded, j), q \in DigraphsAt(guarded, k) :
                       p + Len(digraphRegexps[j][1]) <= q \/ q + Len(digraphRegexps[k][1]) <= p
       /\ \A k \in 1..Len(digraphRegexps) : DigraphsAt(result, k) = {}

\* the merge step has rewritten a text that holds three different digraphs
C20_Witness ==
  /\ pc = "scan" /\ op = "toCyrillic"
  /\ Cardinality({"#Lj", "#Nj", "#Dz^", "#lj", "#nj", "#dz^"} \cap Range(result)) = 3
  /\ Len(result) = 3

----------------------------------------------------------------------------
(* the exception guard, key by key *)

\* the pair of letters at k is the digraph of an exception entry, written as
\* the key writes it, inside a substring a pattern of that entry matches
SplitAtBut(s, k, but) ==
  \E e \in 1..Len(digraphExceptionPatterns) :
    /\ digraphExceptionPatterns[e].digraph # but
    /\ Sub(s, k, k + 1) = digraphExceptionPatterns[e].digraph
    /\ \E j \in 1..Len(digraphExceptionPatterns[e].patterns) :
         LET pattern == digraphExceptionPatterns[e].patterns[j] IN
         \E p \in Occurrences(s, pattern, TRUE) :
           p <= k /\ k + 1 <= p + Len(pattern) - 1

SplitAt(s, k) == SplitAtBut(s, k, <<>>)

SurfaceForms ==
  << <<"L", "j">>, <<"N", "j">>, <<"D", "z^">>,
     <<"l", "j">>, <<"n", "j">>, <<"d", "z^">> >>

SurfaceLetters == <<"#Lj", "#Nj", "#Dz^", "#lj", "#nj", "#dz^">>

SurfaceAt(s, k) ==
  {i \in 1..Len(SurfaceForms) : Sub(s, k, k + 1) = SurfaceForms[i]}

MergedAt(s, k) ==
  k >= 1 /\ k < Len(s) /\ SurfaceAt(s, k) # {} /\ ~SplitAt(s, k)

\* the text the guard and the merge leave, letter by letter: a pair the guard
\* splits holds the non-joiner, any other pair in a surface form is one letter
GuardedAndMerged(s) ==
  Flatten([k \in 1..Len(s) |->
             IF MergedAt(s, k - 1) THEN <<>>
             ELSE IF MergedAt(s, k)
               THEN <<SurfaceLetters[CHOOSE i \in SurfaceAt(s, k) : TRUE]>>
             ELSE IF k < Len(s) /\ SplitAt(s, k) THEN <<s[k], ZWNJ>>
             ELSE <<s[k]>>], 1, Len(s))

\* C21: the guard is key-specific and local: after the guard and the merge the
\* working text has the non-joiner exactly inside the pairs that are the digraph
\* of an exception entry within a substring one of that entry's patterns
\* matches, and every other digraph in a merged surface form, of the same word
\* or outside the matched substring, is one Cyrillic letter.
C21_GuardKeySpecific ==
  (op = "toCyrillic" /\ pc = "scan" /\ ZWNJ \notin Range(workingText))
    => result = GuardedAndMerged(workingText)

\* 'nadžnj' followed by 'dž': the pair inside the match is split, the 'nj' of
\* the same word and the 'dž' after it are merged
C21_Witness ==
  /\ op = "toCyrillic" /\ pc = "scan"
  /\ workingText = <<"n", "a", "d", "z^", "n", "j", "d", "z^">>
  /\ result = <<"n", "a", "d", ZWNJ, "z^", "#nj", "#dz^">>

----------------------------------------------------------------------------
(* placeholders between extraction and restoration *)

PlaceholderTokens(s) ==
  {Placeholder(kind, i) : kind \in {MARKER, WORD}, i \in 0..Len(s)}

TokenStarts(s) ==
  {p \in 1..Len(s) :
     s[p] = PUA /\ \E t \in PlaceholderTokens(s) : MatchAt(s, t, p, FALSE)}

\* the placeholder tokens of s, from left to right
TokenSeq(s) ==
  LET P == TokenStarts(s) IN
  IF P = {} THEN <<>>
  ELSE Flatten([p \in 1..Len(s) |->
                  IF p \in P
                  THEN <<CHOOSE t \in PlaceholderTokens(s) : MatchAt(s, t, p, FALSE)>>
                  ELSE <<>>], 1, Len(s))

CountOf(s, c) == Cardinality({k \in 1..Len(s) : s[k] = c})

\* C22: for an input with no U+E000, the placeholder tokens of the working text
\* after the skip-word extraction are, character for character and in the same
\* order, the placeholder tokens of the text the guard leaves, of the text the
\* merge leaves and of the output of the scan, and no U+E000 is added or lost.
C22_PlaceholdersOpaque ==
  (op = "toCyrillic" /\ pc \in {"merge", "scan", "restoreMarkers"}
     /\ PUA \notin Range(text))
    => /\ TokenSeq(result) = TokenSeq(workingText)
       /\ CountOf(result, PUA) = CountOf(workingText, PUA)

\* a word placeholder and a marker placeholder have gone through the scan next
\* to a letter the scan has mapped
C22_Witness ==
  /\ op = "toCyrillic" /\ pc = "restoreMarkers"
  /\ PUA \notin Range(text)
  /\ TokenSeq(workingText) = <<Placeholder(WORD, 0), Placeholder(MARKER, 0)>>
  /\ "#T" \in Range(result)

----------------------------------------------------------------------------
(* the defaults of the options *)

\* each field of skip as given, or else its own default
FieldOrDefault(o) ==
  [caseSensitive |-> IF o.caseSensitive.set THEN o.caseSensitive.val ELSE TRUE,
   words |-> IF o.words.set THEN o.words.val ELSE <<>>,
   markers |-> IF o.markers.set THEN o.markers.val ELSE <<OPEN, CLOSE>>]

\* C23: each of skip.caseSensitive, skip.words and skip.markers is the value
\* given or else its own default, whatever the other two are: regions are
\* extracted exactly when the text holds a span of the pair given, or of
\* <skip>, </skip> when no pair is given (with words given or not), and a word
\* is extracted only where the text holds a given word in the letter case
\* given.  Stated for the calls that go past the test for an empty text.
C23_DefaultsIndependent ==
  (op = "toCyrillic" /\ pc \notin {"idle", "options"}
     /\ text # <<>> /\ PUA \notin Range(text))
    => LET d == FieldOrDefault(opts) IN
       /\ skip = d
       /\ pc = "forced" =>
            (markerReplacement # <<>>
               <=> \E p, q \in 1..Len(text) :
                     CanSpan(text, p, q, d.markers[1], d.markers[2]))
       /\ pc = "guard" =>
            \A k \in 1..Len(skipReplacement) :
              \E j \in 1..Len(d.words) : EndsWith(skipReplacement[k], d.words[j])

\* a call that supplies only skip.words has had a <skip>...</skip> region extracted
C23_Witness ==
  /\ op = "toCyrillic" /\ pc = "forced"
  /\ opts.words.set /\ ~opts.markers.set /\ ~opts.caseSensitive.set
  /\ markerReplacement = <<<<"a">>>>

----------------------------------------------------------------------------
(* words of Latin letters, the letters with diacritics included *)

Diacritics == Range(DiacriticLower) \cup Range(DiacriticUpper)
LatinLetters == Range(AsciiLower) \cup Range(AsciiUpper) \cup Diacritics

\* the maximal runs of Latin letters of s, as <<first, last>>
LetterRuns(s) ==
  {<<b, Min({e \in b..Len(s) : e = Len(s) \/ s[e + 1] \notin LatinLetters})>> :
     b \in {p \in 1..Len(s) : s[p] \in LatinLetters /\ (p = 1 \/ s[p - 1] \notin LatinLetters)}}

\* C24: every maximal run of letters of the input that holds at least one of
\* q/w/x/y and at least one letter with a diacritic is present in the output
\* of toCyrillic unchanged as a whole, the letters with diacritics included.
C24_WholeRunKept ==
  (ValidReturn /\ Range(text) \cap {PUA, ZWNJ} = {})
    => \A r \in LetterRuns(text) :
         LET run == Sub(text, r[1], r[2]) IN
         (HasEnglishLetter(run) /\ Range(run) \cap Diacritics # {})
           => Contains(ret, run)

----------------------------------------------------------------------------
(* calls in sequence: idempotence and the reverse round trip *)

\* the second of two calls, fed with the string the first returned, has returned
SecondReturned(first, second) ==
  /\ pc = "done"
  /\ calls = <<first, second>>
  /\ opts = NoOptions

\* C25: toLatin(toLatin(x)) = toLatin(x): toLatin applied to a string that
\* toLatin returned returns that string.
C25_ToLatinIdempotent ==
  SecondReturned("toLatin", "toLatin") => ret = text

\* toLatin has been applied twice to a text with Cyrillic letters, of which
\* one is written with two Latin letters
C25_Witness ==
  /\ SecondReturned("toLatin", "toLatin")
  /\ "#nj" \in Range(input)
  /\ Len(input) >= 2
  /\ ret # input

\* the text given to the first call holds no key of the Cyrillic-to-Latin map,
\* no U+200C and no U+E000 (the input families hold no skip marker)
LatinInput ==
  /\ \A k \in 1..Len(input) : input[k] \notin DOMAIN cyrillic2LatinMap
  /\ Range(input) \cap {PUA, ZWNJ} = {}
  /\ ~Contains(input, OPEN)

\* C26: toLatin(toCyrillic(x)) with default options equals x for every text x
\* with no key of the Cyrillic-to-Latin map, no U+200C, no U+E000 and no skip
\* span; words of the exception list, digraphs in capitals and words with
\* q/w/x/y included.
C26_ReverseRoundTrip ==
  (SecondReturned("toCyrillic", "toLatin") /\ LatinInput) => ret = input

\* the round trip of a text that holds a word of the exception list, a digraph
\* in capitals and a word with w: toCyrillic has changed it, toLatin gives it back
C26_Witness ==
  /\ SecondReturned("toCyrillic", "toLatin") /\ LatinInput
  /\ Contains(input, <<"a", "n", "j", "o", "n">>)
  /\ Contains(input, <<"N", "J">>)
  /\ Contains(input, <<"w", "z^">>)
  /\ text # input
  /\ ret = input

\* C27: toCyrillic(toCyrillic(x)) = toCyrillic(x) with default options for
\* every text x with no U+E000 and no skip span: toCyrillic applied to a string
\* that toCyrillic returned returns that string, the words left in Latin by
\* the q/w/x/y rule included.
C27_ToCyrillicIdempotent ==
  (SecondReturned("toCyrillic", "toCyrillic")
     /\ PUA \notin Range(input) /\ ~Contains(input, OPEN))
    => ret = text

\* toCyrillic has been applied twice to a text with a word with w and a
\* digraph: the second call has kept the word once more
C27_Witness ==
  /\ SecondReturned("toCyrillic", "toCyrillic")
  /\ PUA \notin Range(input)
  /\ Contains(input, <<"w", "z^">>)
  /\ Contains(input, <<"n", "j">>)
  /\ text # input
  /\ skipReplacement = <<<<"w">>>>
  /\ ret = text

----------------------------------------------------------------------------
(* the pair 'dj' and the digraphs in capitals *)

\* the scan of the text that the merge leaves when the guard runs with the
\* entries of the exception list after the first, the one of 'dj'
ScannedWithoutDj(s) ==
  CHOOSE r \in {Scan(m).text :
                  m \in {MergeDigraphs(g) :
                           g \in {GuardEntries(s, Tail(digraphExceptionPatterns), 1)}}} : TRUE

DjForms ==
  << <<<<"d", "j">>, <<"#d", "#j">>>>, <<<<"D", "j">>, <<"#D", "#j">>>>,
     <<<<"D", "J">>, <<"#D", "#J">>>> >>

\* C28: 'dj' is never merged: the output of the scan is the one the text has
\* with an empty 'dj' exception list, and toCyrillic returns, for a text with
\* none of the letters d-, D- in either script, a text with neither of them, in
\* which every dj, Dj, DJ of the input is two Cyrillic letters, whether or not
\* the word is on the 'dj' exception list.
C28_DjNeverMerged ==
  (op = "toCyrillic" /\ Range(text) \cap {PUA, ZWNJ, "d-", "D-", "#d-", "#D-"} = {})
    => /\ pc = "restoreMarkers" => result = ScannedWithoutDj(workingText)
       /\ (pc = "done" /\ text # <<>> /\ skipReplacement = <<>>) =>
            /\ Range(ret) \cap {"#d-", "#D-"} = {}
            /\ \A k \in 1..Len(text), f \in 1..Len(DjForms) :
                 MatchAt(text, DjForms[f][1], k, FALSE) => Contains(ret, DjForms[f][2])

\* toCyrillic has returned for a text with a word of the 'dj' exception list
\* and, outside it, 'Dj' and 'DJ'
C28_Witness ==
  /\ op = "toCyrillic" /\ pc = "done"
  /\ digraphExceptionPatterns[1].digraph = <<"d", "j">>
  /\ text = <<"p", "o", "n", "e", "d", "j", "e", "l", "j", "D", "j", "D", "J">>
  /\ ret = <<"#p", "#o", "#n", "#e", "#d", "#j", "#e", "#lj", "#D", "#j", "#D", "#J">>

\* k lies in no run of word characters that holds q, w, x or y
OutsideForced(s, k) ==
  \A r \in Runs(s) : (r[1] <= k /\ k <= r[2]) => ~HasEnglishLetter(Sub(s, r[1], r[2]))

CapitalForms ==
  << <<<<"L", "J">>, <<"#L", "#J">>>>, <<<<"N", "J">>, <<"#N", "#J">>>>,
     <<<<"D", "Z^">>, <<"#D", "#Z^">>>>, <<<<"l", "J">>, <<"#l", "#J">>>>,
     <<<<"n", "J">>, <<"#n", "#J">>>>, <<<<"d", "Z^">>, <<"#d", "#Z^">>>> >>

\* C29: only Lj, Nj, Dz^, lj, nj, dz^ are merged: for a Latin text the output
\* of toCyrillic has as many of the letters that stand for a digraph as the
\* input has pairs in these six forms that the guard does not split, outside
\* the words with q/w/x/y; every LJ, NJ, DZ^, lJ, nJ, dZ^ outside these words
\* is two Cyrillic letters in the output.
C29_OnlySixFormsMerged ==
  (ValidReturn /\ LatinInput /\ text = input)
    => /\ Cardinality({k \in 1..Len(ret) : ret[k] \in Range(SurfaceLetters)})
            = Cardinality({k \in 1..Len(text) : MergedAt(text, k) /\ OutsideForced(text, k)})
       /\ \A k \in 1..Len(text), f \in 1..Len(CapitalForms) :
            (MatchAt(text, CapitalForms[f][1], k, FALSE) /\ OutsideForced(text, k))
              => Contains(ret, CapitalForms[f][2])

\* toCyrillic has returned for a text in capitals: six letters for LJ, NJ, DZ^
C29_Witness ==
  /\ ValidReturn /\ LatinInput /\ text = input
  /\ text = <<"L", "J", "N", "J", "D", "Z^">>
  /\ ret = <<"#L", "#J", "#N", "#J", "#D", "#Z^">>

----------------------------------------------------------------------------
(* the shipped build *)

\* C30: the build agrees with the source: autoTransliterate(text, options) of
\* dist/index.js returns, or fails, exactly as autoTransliterate of index.ts
\* does with the same text and options (the other four operations of the build
\* are the statements of the source, compiled).
C30_BuildAgrees ==
  (op = "dist.autoTransliterate" /\ pc \in {"done", "failed"})
    => /\ pc = "failed" <=> Throws("autoTransliterate", text, opts)
       /\ pc = "done" => ret = ReturnOf("autoTransliterate", text, opts)
====
